---- MODULE Spec2Model ----
(***************************************************************************)
(* A model of the delegator gateway: the cryptogram evaluator              *)
(* (routes/evaluate.rs), the transform language (translate/mod.rs) and the *)
(* memoization cache (cache/mod.rs).                                       *)
(*                                                                         *)
(* JSON values (serde_json::Value) are tagged records; every tag keeps its *)
(* content in a field of its own, so two values of different tags never    *)
(* share a field:                                                          *)
(*   null   [t |-> "null"]                                                 *)
(*   bool   [t |-> "bool", b |-> TRUE]                                     *)
(*   number [t |-> "num",  n |-> 1]                                        *)
(*   string [t |-> "str",  s |-> "x"]                                      *)
(*   array  [t |-> "arr",  a |-> << ... >>]                                *)
(*   object [t |-> "obj",  o |-> [key |-> value]]   (a map keyed by name)  *)
(***************************************************************************)
EXTENDS Integers, Sequences, FiniteSets, TLC

VARIABLES
    cache,             \* MemoizationCache.cache: key -> (cached_at, ttl, value)
    cache_lock,        \* holder of the tokio Mutex around the cache
    now,               \* the monotonic clock read by Instant::now()
    ticks,             \* number of clock advances so far
    heap,              \* the scratchpads allocated by make_state()
    pc,                \* per evaluation: position in the handler / do_evaluate
    cryptogram,        \* per evaluation: do_evaluate's `cryptogram`
    step_idx,          \* per evaluation: do_evaluate's `step`
    translator_state,  \* per evaluation: reference (into heap) to its scratchpad
    locals,            \* per evaluation: outgoing_payload, memo_key, new_payload
    final_result,      \* per evaluation: do_evaluate's `final_result`
    result,            \* per evaluation: what do_evaluate returned
    inflight,          \* backend requests issued and not yet answered
    trace,             \* per evaluation: what it did, in order
    began_after,       \* per evaluation: the evaluations finished when it began
    posted,            \* per evaluation: the request, its cryptogram and body
    last,              \* the last direct cache operation and what it returned
    probe              \* a function applied on its own: its inputs and results

vars == <<cache, cache_lock, now, ticks, heap, pc, cryptogram, step_idx,
          translator_state, locals, final_result, result, inflight, trace,
          began_after, posted, last, probe>>

(***************************************************************************)
(* Option<T>                                                               *)
(***************************************************************************)
None == [some |-> FALSE]
Some(x) == [some |-> TRUE, val |-> x]
unwrap_or(opt, default) == IF opt.some THEN opt.val ELSE default

(***************************************************************************)
(* serde_json::Value                                                       *)
(***************************************************************************)
Null == [t |-> "null"]
Bool(b) == [t |-> "bool", b |-> b]
Number(n) == [t |-> "num", n |-> n]
String(s) == [t |-> "str", s |-> s]
Array(a) == [t |-> "arr", a |-> a]
Object(o) == [t |-> "obj", o |-> o]

EmptyMap == [k \in {} |-> Null]
Obj1(k, v) == Object([x \in {k} |-> v])
Obj2(k1, v1, k2, v2) == Object([x \in {k1, k2} |-> IF x = k1 THEN v1 ELSE v2])

\* The strings of the model in lexicographic (byte) order, as String::cmp
\* orders them; serde_json's Map iterates its keys in this order.
StringOrder == <<"", "a", "ab", "b", "x", "y", "zz">>

Keys(o) == SelectSeq(StringOrder, LAMBDA k : k \in DOMAIN o)

(***************************************************************************)
(* translate::Language, the transform AST                                  *)
(***************************************************************************)
At(key) == [op |-> "At", key |-> key]
ArrayOf(next) == [op |-> "Array", next |-> next]
ObjectOf(pairs) == [op |-> "Object", pairs |-> pairs]
Splat(each) == [op |-> "Splat", each |-> each]
Set(into) == [op |-> "Set", into |-> into]
Get(from) == [op |-> "Get", from |-> from]
Const(value) == [op |-> "Const", value |-> value]
Identity == [op |-> "Identity"]
Map(first, second) == [op |-> "Map", first |-> first, second |-> second]
Length == [op |-> "Length"]
Join(by) == [op |-> "Join", by |-> by]
Default(prog) == [op |-> "Default", prog |-> prog]
Flatten == [op |-> "Flatten"]
EmitEvent(owner_id, topic, et) ==
    [op |-> "EmitEvent", owner_id |-> owner_id, topic |-> topic, et |-> et]

(***************************************************************************)
(* translate::State is Arc<Mutex<HashMap<String, Arc<Value>>>>: a shared   *)
(* reference.  A transform runs against a "world": the scratchpad the      *)
(* reference points to, and the list of side effects performed so far      *)
(* (scratchpad writes and reads, events handed to the event client).       *)
(* Whatever a transform wrote stays written when the transform fails.      *)
(***************************************************************************)
Op(ev, name, v) == [ev |-> ev, name |-> name, v |-> v]

World(sp) == [sp |-> sp, ops |-> <<>>]

StepOk(value, w) ==
    [st |-> "ok", value |-> value, history |-> <<>>, choices |-> None, w |-> w]
StepError(history, choices, w) ==
    [st |-> "err", value |-> Null, history |-> history, choices |-> choices, w |-> w]
StepPanic(w) ==
    [st |-> "panic", value |-> Null, history |-> <<>>, choices |-> None, w |-> w]

prepend_history(r, before) == [r EXCEPT !.history = <<before>> \o r.history]

RECURSIVE JoinStrings(_, _)
JoinStrings(elems, by) ==
    IF Len(elems) = 0 THEN ""
    ELSE IF Len(elems) = 1 THEN elems[1]
    ELSE elems[1] \o by \o JoinStrings(Tail(elems), by)

RECURSIVE Concat(_)
Concat(seqs) == IF Len(seqs) = 0 THEN <<>> ELSE Head(seqs) \o Concat(Tail(seqs))

StringsOf(vec) == LET strs == SelectSeq(vec, LAMBDA e : e.t = "str")
                  IN  [i \in 1..Len(strs) |-> strs[i].s]

RECURSIVE step(_, _, _, _)
RECURSIVE stepArray(_, _, _, _, _, _)
RECURSIVE stepObject(_, _, _, _, _, _)
RECURSIVE stepSplat(_, _, _, _, _, _)
RECURSIVE stepMap(_, _, _, _, _)

\* (mutant) the failing element is named by its position counted from one
stepArray_from_one(ctx, next, elems, i, acc, w) ==
    IF i > Len(elems) THEN StepOk(Array(acc), w)
    ELSE LET r == step(ctx, next, elems[i], w)
         IN  IF r.st = "ok"
                 THEN stepArray(ctx, next, elems, i + 1, Append(acc, r.value), r.w)
             ELSE IF r.st = "err"
                 THEN prepend_history(r, "[" \o ToString(i) \o "]")
             ELSE r

\* (mutant) every element is evaluated against the scratchpad as it was
\* before the first
stepArray_apart(ctx, next, elems, i, acc, w) ==
    IF i > Len(elems) THEN StepOk(Array(acc), w)
    ELSE LET r == step(ctx, next, elems[i], w)
         IN  IF r.st = "ok"
                 THEN stepArray(ctx, next, elems, i + 1, Append(acc, r.value), w)
             ELSE IF r.st = "err"
                 THEN prepend_history(r, "[" \o ToString(i - 1) \o "]")
             ELSE r

\* Language::Array: the elements in index order, stopping at the first failure
stepArray(ctx, next, elems, i, acc, w) ==
    IF i > Len(elems) THEN StepOk(Array(acc), w)
    ELSE LET r == step(ctx, next, elems[i], w)
         IN  IF r.st = "ok"
                 THEN stepArray(ctx, next, elems, i + 1, Append(acc, r.value), r.w)
             ELSE IF r.st = "err"
                 THEN prepend_history(r, "[" \o ToString(i - 1) \o "]")
             ELSE r

\* (mutant) the key of the failing pair is put in front of the history
stepObject_keyed(ctx, pairs, current, i, acc, w) ==
    IF i > Len(pairs) THEN StepOk(Object(acc), w)
    ELSE LET k == pairs[i][1]
             r == step(ctx, pairs[i][2], current, w)
         IN  IF r.st = "ok"
                 THEN stepObject(ctx, pairs, current, i + 1,
                         [x \in (DOMAIN acc) \cup {k} |->
                             IF x = k THEN r.value ELSE acc[x]], r.w)
             ELSE IF r.st = "err" THEN prepend_history(r, k)
             ELSE r

\* (mutant) a key that is already there keeps its value
stepObject_first(ctx, pairs, current, i, acc, w) ==
    IF i > Len(pairs) THEN StepOk(Object(acc), w)
    ELSE LET k == pairs[i][1]
             r == step(ctx, pairs[i][2], current, w)
         IN  IF r.st = "ok"
                 THEN stepObject(ctx, pairs, current, i + 1,
                         [x \in (DOMAIN acc) \cup {k} |->
                             IF x \in DOMAIN acc THEN acc[x] ELSE r.value], r.w)
             ELSE r

\* Language::Object: the pairs in declared order, collected into a Map
stepObject(ctx, pairs, current, i, acc, w) ==
    IF i > Len(pairs) THEN StepOk(Object(acc), w)
    ELSE LET k == pairs[i][1]
             r == step(ctx, pairs[i][2], current, w)
         IN  IF r.st = "ok"
                 THEN stepObject(ctx, pairs, current, i + 1,
                         [x \in (DOMAIN acc) \cup {k} |->
                             IF x = k THEN r.value ELSE acc[x]], r.w)
             ELSE r

\* Language::Splat: every part against the same input, the last result wins
stepSplat(ctx, each, current, i, acc, w) ==
    IF i > Len(each)
        THEN IF Len(acc) = 0 THEN StepPanic(w)      \* result.last().unwrap()
             ELSE StepOk(acc[Len(acc)], w)
    ELSE LET r == step(ctx, each[i], current, w)
         IN  IF r.st = "ok"
                 THEN stepSplat(ctx, each, current, i + 1, Append(acc, r.value), r.w)
             ELSE r

\* (mutant) a name that is already there keeps its value
Set_insert_absent(sp, into, current) ==
    [x \in (DOMAIN sp) \cup {into} |-> IF x \in DOMAIN sp THEN sp[x] ELSE current]

\* HashMap::insert: the name maps to the new value, whatever it mapped to
Set_insert(sp, into, current) ==
    [x \in (DOMAIN sp) \cup {into} |-> IF x = into THEN current ELSE sp[x]]

stepSet(into, current, w) ==
    StepOk(current,
           [sp |-> Set_insert(w.sp, into, current),
            ops |-> Append(w.ops, Op("set", into, Some(current)))])

stepGet(from, w) ==
    IF from \in DOMAIN w.sp
        THEN StepOk(w.sp[from],
                    [w EXCEPT !.ops = Append(@, Op("get", from, Some(w.sp[from])))])
    ELSE StepError(<<"Get(" \o from \o ")">>, None,
                   [w EXCEPT !.ops = Append(@, Op("get", from, None))])

stepEmitEvent(ctx, prog, current, w) ==
    IF ctx.client
        THEN StepOk(current,
                    [w EXCEPT !.ops = Append(@, Op("emit", prog.topic, Some(current)))])
    ELSE StepOk(current, w)

\* (mutant) the failure never lists the keys of the input
stepAt_no_choices(key, current, w) ==
    IF current.t = "obj" /\ key \in DOMAIN current.o
        THEN StepOk(current.o[key], w)
    ELSE StepError(<<key>>, None, w)

stepAt(key, current, w) ==
    IF current.t = "obj" /\ key \in DOMAIN current.o
        THEN StepOk(current.o[key], w)
    ELSE StepError(<<key>>,
                   IF current.t = "obj"
                       THEN Some(Array([i \in 1..Len(Keys(current.o)) |->
                                           String(Keys(current.o)[i])]))
                   ELSE None,
                   w)

stepLength(current, w) ==
    IF current.t = "arr" THEN StepOk(Number(Len(current.a)), w)
    ELSE IF current.t = "obj" THEN StepOk(Number(Cardinality(DOMAIN current.o)), w)
    ELSE StepOk(Null, w)

stepJoin(by, current, w) ==
    IF current.t = "arr"
        THEN StepOk(String(JoinStrings(StringsOf(current.a), by)), w)
    ELSE StepError(<<>>, None, w)

stepFlatten(current, w) ==
    IF current.t = "arr" /\ \A i \in 1..Len(current.a) : current.a[i].t = "arr"
        THEN StepOk(Array(Concat([i \in 1..Len(current.a) |-> current.a[i].a])), w)
    ELSE StepPanic(w)                               \* panic!("Child was not an array!")

\* (mutant) the second part runs first, the first part on its result
stepMap_swapped(ctx, first, second, current, w) ==
    LET intermediate == step(ctx, second, current, w)
    IN  IF intermediate.st = "ok"
            THEN step(ctx, first, intermediate.value, intermediate.w)
        ELSE intermediate

\* (mutant) a failure of the second part is marked in the history
stepMap_marked(ctx, first, second, current, w) ==
    LET intermediate == step(ctx, first, current, w)
    IN  IF intermediate.st = "ok"
            THEN LET r == step(ctx, second, intermediate.value, intermediate.w)
                 IN  IF r.st = "err" THEN prepend_history(r, "|") ELSE r
        ELSE intermediate

\* (mutant) the result of the first part is returned, the second never runs
stepMap_first(ctx, first, second, current, w) ==
    step(ctx, first, current, w)

\* Language::Map: the second part on the result of the first
stepMap(ctx, first, second, current, w) ==
    LET intermediate == step(ctx, first, current, w)
    IN  IF intermediate.st = "ok"
            THEN step(ctx, second, intermediate.value, intermediate.w)
        ELSE intermediate

step(ctx, prog, current, w) ==
    CASE prog.op = "At" -> stepAt(prog.key, current, w)
      [] prog.op = "Array" ->
            IF current.t = "arr"
                THEN stepArray(ctx, prog.next, current.a, 1, <<>>, w)
            ELSE StepError(<<"<Not an array>">>, None, w)
      [] prog.op = "Object" -> stepObject(ctx, prog.pairs, current, 1, EmptyMap, w)
      [] prog.op = "Splat" -> stepSplat(ctx, prog.each, current, 1, <<>>, w)
      [] prog.op = "Set" -> stepSet(prog.into, current, w)
      [] prog.op = "Get" -> stepGet(prog.from, w)
      [] prog.op = "Const" -> StepOk(prog.value, w)
      [] prog.op = "Identity" -> StepOk(current, w)
      [] prog.op = "EmitEvent" -> stepEmitEvent(ctx, prog, current, w)
      [] prog.op = "Map" -> stepMap(ctx, prog.first, prog.second, current, w)
      [] prog.op = "Length" -> stepLength(current, w)
      [] prog.op = "Join" -> stepJoin(prog.by, current, w)
      [] prog.op = "Default" ->
            IF current.t = "null" THEN step(ctx, prog.prog, Null, w)
            ELSE StepOk(current, w)
      [] prog.op = "Flatten" -> stepFlatten(current, w)

(***************************************************************************)
(* cache::hash_value.  The walk feeds bytes to one DefaultHasher; the      *)
(* digest depends on nothing but the concatenation of the bytes fed, so    *)
(* the model keeps that byte stream and treats the 64-bit SipHash of it    *)
(* (and its {:x} rendering) as injective on streams.                       *)
(***************************************************************************)
into_bytes(s) ==
    CASE s = "" -> <<>>
      [] s = "a" -> <<97>>
      [] s = "ab" -> <<97, 98>>
      [] s = "ax" -> <<97, 120>>
      [] s = "b" -> <<98>>
      [] s = "x" -> <<120>>
      [] s = "y" -> <<121>>
      [] s = "zz" -> <<122, 122>>
      [] s = "u1-" -> <<117, 49, 45>>
      [] s = "u2-" -> <<117, 50, 45>>

\* n.as_u64() for n >= 0, else n.as_i64(), as 8 big-endian bytes
to_be_bytes(n) ==
    [i \in 1..8 |->
        IF i <= 4 THEN (IF n >= 0 THEN 0 ELSE 255)
        ELSE LET shift == 256 ^ (8 - i)
                 low == IF n >= 0 THEN n ELSE n + 2147483647 + 1
                 hi  == IF n < 0 /\ i = 5 THEN 128 ELSE 0
             IN  ((low \div shift) % 256) + hi]

\* A serde_json Map holds its entries in an order of its own, the one its
\* keys() iterates in: the sorted one when it is backed by a BTreeMap, the
\* order of insertion with the preserve_order feature.  Object(o) is a Map
\* that iterates in sorted order; ObjectIn(o, ord) has the same entries and
\* iterates in the order ord.  Content forgets the order: Map's == compares
\* entries only.
ObjectIn(o, ord) == [t |-> "obj", o |-> o, ord |-> ord]

Map_keys(x) == IF "ord" \in DOMAIN x THEN x.ord ELSE Keys(x.o)

RECURSIVE Content(_)
Content(x) ==
    CASE x.t = "arr" -> Array([i \in 1..Len(x.a) |-> Content(x.a[i])])
      [] x.t = "obj" -> Object([k \in DOMAIN x.o |-> Content(x.o[k])])
      [] OTHER -> x

\* String::cmp on the strings of the model
String_lt(a, b) ==
    (CHOOSE i \in 1..Len(StringOrder) : StringOrder[i] = a)
        < (CHOOSE i \in 1..Len(StringOrder) : StringOrder[i] = b)

RECURSIVE sort_insert(_, _)
sort_insert(sorted, k) ==
    IF Len(sorted) = 0 THEN <<k>>
    ELSE IF String_lt(k, Head(sorted)) THEN <<k>> \o sorted
    ELSE <<Head(sorted)>> \o sort_insert(Tail(sorted), k)

RECURSIVE sort_from(_, _)
sort_from(keys, sorted) ==
    IF Len(keys) = 0 THEN sorted
    ELSE sort_from(Tail(keys), sort_insert(sorted, Head(keys)))

\* (mutant) the keys are hashed in the order the Map iterates them
sort_skipped(keys) == keys

\* keys.sort()
sort(keys) == sort_from(keys, <<>>)

RECURSIVE hash_step(_)
RECURSIVE hash_step_array(_)
RECURSIVE hash_step_object(_, _)

hash_step_array(vec) ==
    IF Len(vec) = 0 THEN <<>>
    ELSE hash_step(Head(vec)) \o hash_step_array(Tail(vec))

hash_step_object(hm, keys) ==
    IF Len(keys) = 0 THEN <<>>
    ELSE into_bytes(Head(keys)) \o hash_step(hm[Head(keys)])
             \o hash_step_object(hm, Tail(keys))

hash_step(x) ==
    CASE x.t = "str" -> into_bytes(x.s)
      [] x.t = "null" -> <<0>>
      [] x.t = "bool" -> IF x.b THEN <<1>> ELSE <<0>>
      [] x.t = "num" -> to_be_bytes(x.n)
      [] x.t = "arr" -> hash_step_array(x.a)
      [] x.t = "obj" -> hash_step_object(x.o, sort(Map_keys(x)))

hash_value(value) == hash_step(value)

\* format!("{}{}", prefix, hash_value(&outgoing_payload))
format_memo_key(prefix, hash) == [prefix |-> prefix, hash |-> hash]

NoKey == format_memo_key("", <<>>)

(***************************************************************************)
(* cache::MemoizationCache                                                 *)
(***************************************************************************)
MemoizationCache_empty == [k \in {} |-> [cached_at |-> 0, ttl |-> 0, value |-> Null]]

\* cached_at.elapsed()
elapsed(cached_at, t) == t - cached_at

\* (mutant) an entry exactly as old as its TTL is already reported absent
MemoizationCache_get_early(c, t, key) ==
    IF key \in DOMAIN c
        THEN IF elapsed(c[key].cached_at, t) >= c[key].ttl
                 THEN None
             ELSE Some(c[key].value)
    ELSE None

MemoizationCache_get(c, t, key) ==
    IF key \in DOMAIN c
        THEN IF elapsed(c[key].cached_at, t) > c[key].ttl
                 THEN None
             ELSE Some(c[key].value)
    ELSE None

\* (mutant) an entry already present is kept: entry(key).or_insert(..)
MemoizationCache_insert_absent(c, t, key, value, ttl) ==
    [cache |-> [k \in (DOMAIN c) \cup {key} |->
                   IF k = key /\ key \notin DOMAIN c
                       THEN [cached_at |-> t, ttl |-> ttl, value |-> value]
                   ELSE c[k]],
     ret |-> value]

MemoizationCache_insert(c, t, key, value, ttl) ==
    [cache |-> [k \in (DOMAIN c) \cup {key} |->
                   IF k = key
                       THEN [cached_at |-> t, ttl |-> ttl, value |-> value]
                   ELSE c[k]],
     ret |-> value]

(***************************************************************************)
(* Bounds and the inputs of the model                                      *)
(***************************************************************************)
MaxTicks == 1                  \* clock advances while requests are evaluated

TTL_SECS == 600                \* Duration::from_secs(600)

\* seconds by which the clock may advance at once: up to the TTL, or past it
TickSizes == {TTL_SECS, TTL_SECS + 1}

Evals == {"e1", "e2"}          \* the concurrent request handlers

\* TranslateContext::build(event_client), as main() builds it
Ctx == [client |-> TRUE]

\* TranslateContext::noop()
NoopCtx == [client |-> FALSE]

(***************************************************************************)
(* evaluate::JsonCryptogramStep and its builder                            *)
(***************************************************************************)
JsonCryptogramStep(service, method, payload, preflight, postflight, prefix) ==
    [service |-> service, method |-> method, payload |-> payload,
     preflight |-> preflight, postflight |-> postflight,
     memoization_prefix |-> prefix, headers |-> None]

build(service, method, payload) ==
    JsonCryptogramStep(Some(service), Some(method), Some(payload), None, None, None)
preflight(s, l) == [s EXCEPT !.preflight = Some(l)]
postflight(s, l) == [s EXCEPT !.postflight = Some(l)]
memoization_prefix(s, prefix) == [s EXCEPT !.memoization_prefix = Some(prefix)]
inert(payload) == JsonCryptogramStep(None, None, payload, None, None, None)

JsonCryptogram(steps) == [steps |-> steps]

(***************************************************************************)
(* config::Services, the registry                                          *)
(***************************************************************************)
MethodDefinition(method, path) == [method |-> method, path |-> path]

Services ==
    [s \in {"catalog"} |->
        [scheme |-> "http", authority |-> "0:0",
         methods |-> [m \in {"search", "lookup"} |->
                         IF m = "search" THEN MethodDefinition("POST", "/search/")
                         ELSE MethodDefinition("POST", "/product_variants/")]]]

\* Uri::builder().scheme(..).authority(..).path_and_query(..).build(): the
\* three parts are already validated values, so the build succeeds
Uri_build(scheme, authority, path) ==
    Some([scheme |-> scheme, authority |-> authority, path |-> path])

(***************************************************************************)
(* evaluate::EvaluateError and the value do_evaluate returns               *)
(***************************************************************************)
EvaluateError(kind, history, choices, a, b, context) ==
    [kind |-> kind, history |-> history, choices |-> choices,
     a |-> a, b |-> b, context |-> context]

NoError == EvaluateError("", <<>>, None, "", "", Null)
NoStepsSpecified == EvaluateError("NoStepsSpecified", <<>>, None, "", "", Null)
InvalidStructure(r) == EvaluateError("InvalidStructure", r.history, r.choices, "", "", Null)
UnknownService(name) == EvaluateError("UnknownService", <<>>, None, name, "", Null)
UnknownMethod(service, method) ==
    EvaluateError("UnknownMethod", <<>>, None, service, method, Null)
UriBuilderError == EvaluateError("UriBuilderError", <<>>, None, "", "", Null)
NetworkError(context) == EvaluateError("NetworkError", <<>>, None, "", "", context)
ClientError == EvaluateError("ClientError", <<>>, None, "", "", Null)
InvalidJsonError == EvaluateError("InvalidJsonError", <<>>, None, "", "", Null)
InvalidPayloadError == EvaluateError("InvalidPayloadError", <<>>, None, "", "", Null)
Utf8Error == EvaluateError("Utf8Error", <<>>, None, "", "", Null)
\* the two variants that carry numbers keep them in the context field
UnknownStep(num) == EvaluateError("UnknownStep", <<>>, None, "", "", Number(num))
InvalidTransition(steps, at) ==
    EvaluateError("InvalidTransition", <<>>, None, "", "",
                  Array(<<Array([i \in 1..Len(steps) |-> Number(steps[i])]),
                          Number(at)>>))

Pending == [st |-> "none", value |-> Null, err |-> NoError]
Ok(value) == [st |-> "ok", value |-> value, err |-> NoError]
Err(e) == [st |-> "err", value |-> Null, err |-> e]
Panicked == [st |-> "panic", value |-> Null, err |-> NoError]

(***************************************************************************)
(* The HTTP answer of a handler: HttpResponse::Ok().json(&result), or the   *)
(* error_response of the EvaluateError it returned                         *)
(***************************************************************************)
\* json!({ k: v, ... })
json(pairs) ==
    Object([k \in {pairs[i][1] : i \in 1..Len(pairs)} |->
               pairs[CHOOSE i \in 1..Len(pairs) : pairs[i][1] = k][2]])

\* #[derive(Serialize)] struct StepError { history, choices }
StepError_serialize(history, choices) ==
    json(<< <<"history", Array([i \in 1..Len(history) |-> String(history[i])])>>,
            <<"choices", unwrap_or(choices, Null)>> >>)

\* impl From<&EvaluateError> for Value; inner.to_string() is the text the
\* error carries
From_EvaluateError(error) ==
    CASE error.kind = "ClientError" ->
            json(<< <<"err", String("client")>>, <<"value", String(error.a)>> >>)
      [] error.kind = "InvalidJsonError" ->
            json(<< <<"err", String("protocol")>>, <<"value", String(error.a)>> >>)
      [] error.kind = "InvalidPayloadError" ->
            json(<< <<"err", String("payload")>>, <<"value", String(error.a)>> >>)
      [] error.kind = "UnknownStep" ->
            json(<< <<"err", String("unknown_step")>>, <<"num", error.context>> >>)
      [] error.kind = "InvalidStructure" ->
            json(<< <<"err", String("invalid_structure")>>,
                    <<"value", StepError_serialize(error.history, error.choices)>> >>)
      [] error.kind = "InvalidTransition" ->
            json(<< <<"err", String("unknown_transition")>>,
                    <<"steps", error.context.a[1]>>,
                    <<"step", error.context.a[2]>> >>)
      [] error.kind = "NetworkError" -> error.context
      [] error.kind = "NoStepsSpecified" ->
            json(<< <<"err", String("no_steps_specified")>> >>)
      [] error.kind = "UnknownMethod" ->
            json(<< <<"err", String("unknown_method")>>,
                    <<"service_name", String(error.a)>>,
                    <<"method_name", String(error.b)>> >>)
      [] error.kind = "UnknownService" ->
            json(<< <<"err", String("unknown_service")>>,
                    <<"service_name", String(error.a)>> >>)
      [] error.kind = "UriBuilderError" ->
            json(<< <<"err", String("uri_builder_error")>> >>)
      [] error.kind = "Utf8Error" -> json(<< <<"err", String("utf8_error")>> >>)

\* (mutant) the upstream context is wrapped like the other errors
error_as_json_wrapped(error) ==
    IF error.kind = "NetworkError"
        THEN json(<< <<"err", String("network")>>, <<"value", error.context>> >>)
    ELSE From_EvaluateError(error)

error_as_json(error) == From_EvaluateError(error)

HttpResponse(status, body) ==
    [status |-> status, content_type |-> "application/json", body |-> body]

\* (mutant) the error is reported as a bad request
json_error_response_400(err) == HttpResponse(400, error_as_json(err))

\* errors.rs 16-27: StatusCode::INTERNAL_SERVER_ERROR, the error as JSON
json_error_response(err) == HttpResponse(500, error_as_json(err))

\* a handler that panicked answers nothing
NoResponse == [status |-> 0, content_type |-> "", body |-> Null]

\* what the handler answers once do_evaluate has returned res
respond(res) ==
    IF res.st = "ok" THEN HttpResponse(200, res.value)
    ELSE IF res.st = "err" THEN json_error_response(res.err)
    ELSE NoResponse

(***************************************************************************)
(* JsonClient::issue_request: what a backend may answer.  TestJsonClient   *)
(* echoes the payload; a live backend answers any JSON or fails.           *)
(***************************************************************************)
BackendValues == {String("y")}

issue_request(method, uri, payload, headers) ==
    {Ok(payload)} \cup {Ok(v) : v \in BackendValues}
        \cup {Err(NetworkError(String("x"))), Err(ClientError)}

(***************************************************************************)
(* What an evaluation did, in order                                        *)
(***************************************************************************)
Event(ev, i, name, key, v, at) ==
    [ev |-> ev, step |-> i, name |-> name, key |-> key, v |-> v, at |-> at]

OpsEvents(ops, i) ==
    [j \in 1..Len(ops) |-> Event(ops[j].ev, i, ops[j].name, NoKey, ops[j].v, 0)]

NoLocals ==
    [outgoing_payload |-> Null, memo_key |-> None, maybe_cache |-> None,
     new_payload |-> Null]

(***************************************************************************)
(* do_evaluate, as a function on the state of one evaluation:              *)
(*   [pc, cryptogram, step, locals, final_result, result, trace, sp]       *)
(* where sp is the scratchpad its translator_state points to.  The body of *)
(* the loop is cut at its suspension points: the two cache lock().await    *)
(* and the issue_request(..).await, and where the guard of the lookup is   *)
(* dropped.                                                                *)
(***************************************************************************)
Log(es, events) == [es EXCEPT !.trace = @ \o events]

\* (mutant) an error is recorded but the sweep goes on with the next step
Return_continue(es, res) ==
    IF res.st = "err" /\ es.step < Len(es.cryptogram.steps)
        THEN [Log(es, <<Event("return", es.step, "", NoKey, None, 0)>>)
                 EXCEPT !.result = res, !.pc = "loop", !.step = es.step + 1]
    ELSE [Log(es, <<Event("return", es.step, "", NoKey,
                          IF res.st = "ok" THEN Some(res.value) ELSE None, 0)>>)
             EXCEPT !.pc = "done", !.result = res]

\* (mutant) the result is there but the future never completes
Return_parked(es, res) ==
    [Log(es, <<Event("return", es.step, "", NoKey,
                     IF res.st = "ok" THEN Some(res.value) ELSE None, 0)>>)
        EXCEPT !.pc = "parked", !.result = res]

\* `return Err(..)` through `?`, or the return at the end of do_evaluate
Return(es, res) ==
    [Log(es, <<Event("return", es.step, "", NoKey,
                     IF res.st = "ok" THEN Some(res.value) ELSE None, 0)>>)
        EXCEPT !.pc = "done", !.result = res]

\* (mutant) every transform runs against a scratchpad of its own
RunTransform_fresh(es, label, pf, input) ==
    LET r == step(Ctx, pf, input, World(EmptyMap))
    IN  [r |-> r,
         es |-> Log([es EXCEPT !.sp = r.w.sp],
                    <<Event(label, es.step, "", NoKey, Some(input), 0)>>
                        \o OpsEvents(r.w.ops, es.step))]

\* (mutant) what a failed transform wrote is taken back
RunTransform_undone(es, label, pf, input) ==
    LET r == step(Ctx, pf, input, World(es.sp))
    IN  [r |-> r,
         es |-> Log([es EXCEPT !.sp = IF r.st = "ok" THEN r.w.sp ELSE es.sp],
                    <<Event(label, es.step, "", NoKey, Some(input), 0)>>
                        \o OpsEvents(r.w.ops, es.step))]

\* translate::step(ctx, pf, input, translator_state.clone())
RunTransform(es, label, pf, input) ==
    LET r == step(Ctx, pf, input, World(es.sp))
    IN  [r |-> r,
         es |-> Log([es EXCEPT !.sp = r.w.sp],
                    <<Event(label, es.step, "", NoKey, Some(input), 0)>>
                        \o OpsEvents(r.w.ops, es.step))]

\* .map_err(EvaluateError::InvalidStructure)?
TransformFailed(es, r) ==
    IF r.st = "panic" THEN Return(es, Panicked)
    ELSE Return(es, Err(InvalidStructure(r)))

\* (mutant) `step = next_idx` is missing: the same step is processed again
Advance_stay(es, new_payload) ==
    LET next_idx == es.step + 1
        logged == Log(es, <<Event("new_payload", es.step, "", NoKey,
                                  Some(new_payload), 0)>>)
    IN  IF next_idx < Len(es.cryptogram.steps)
            THEN [logged EXCEPT !.cryptogram.steps[next_idx + 1].payload =
                                     Some(new_payload),
                                !.pc = "loop", !.locals = NoLocals]
        ELSE [logged EXCEPT !.final_result = Some(new_payload),
                            !.step = next_idx, !.pc = "loop",
                            !.locals = NoLocals]

\* (mutant) the new payload of the last step is not kept as the final result
Advance_forward_only(es, new_payload) ==
    LET next_idx == es.step + 1
        logged == Log(es, <<Event("new_payload", es.step, "", NoKey,
                                  Some(new_payload), 0)>>)
    IN  IF next_idx < Len(es.cryptogram.steps)
            THEN [logged EXCEPT !.cryptogram.steps[next_idx + 1].payload =
                                     Some(new_payload),
                                !.step = next_idx, !.pc = "loop",
                                !.locals = NoLocals]
        ELSE [logged EXCEPT !.step = next_idx, !.pc = "loop",
                            !.locals = NoLocals]

\* (mutant) a payload the next step already carries is kept, not replaced
Advance_keep(es, new_payload) ==
    LET next_idx == es.step + 1
        logged == Log(es, <<Event("new_payload", es.step, "", NoKey,
                                  Some(new_payload), 0)>>)
    IN  IF next_idx < Len(es.cryptogram.steps)
            THEN IF es.cryptogram.steps[next_idx + 1].payload.some
                     THEN [logged EXCEPT !.step = next_idx, !.pc = "loop",
                                         !.locals = NoLocals]
                 ELSE [logged EXCEPT !.cryptogram.steps[next_idx + 1].payload =
                                         Some(new_payload),
                                     !.step = next_idx, !.pc = "loop",
                                     !.locals = NoLocals]
        ELSE [logged EXCEPT !.final_result = Some(new_payload),
                            !.step = next_idx, !.pc = "loop",
                            !.locals = NoLocals]

\* (mutant) the payload of the step that was processed is taken out of it
Advance_taken(es, new_payload) ==
    LET next_idx == es.step + 1
        logged == Log(es, <<Event("new_payload", es.step, "", NoKey,
                                  Some(new_payload), 0)>>)
    IN  IF next_idx < Len(es.cryptogram.steps)
            THEN [logged EXCEPT !.cryptogram.steps[next_idx].payload = None,
                                !.cryptogram.steps[next_idx + 1].payload =
                                     Some(new_payload),
                                !.step = next_idx, !.pc = "loop",
                                !.locals = NoLocals]
        ELSE [logged EXCEPT !.cryptogram.steps[next_idx].payload = None,
                            !.final_result = Some(new_payload),
                            !.step = next_idx, !.pc = "loop",
                            !.locals = NoLocals]

\* evaluate.rs 417-430: hand new_payload to the next step, or keep it as
\* the final result; then step = next_idx
Advance(es, new_payload) ==
    LET next_idx == es.step + 1
        logged == Log(es, <<Event("new_payload", es.step, "", NoKey,
                                  Some(new_payload), 0)>>)
    IN  IF next_idx < Len(es.cryptogram.steps)
            THEN [logged EXCEPT !.cryptogram.steps[next_idx + 1].payload =
                                     Some(new_payload),
                                !.step = next_idx, !.pc = "loop",
                                !.locals = NoLocals]
        ELSE [logged EXCEPT !.final_result = Some(new_payload),
                            !.step = next_idx, !.pc = "loop",
                            !.locals = NoLocals]

\* (mutant) an inert step hands its payload on without its postflight
Inert_raw(es) == Advance(es, es.locals.outgoing_payload)

\* (mutant) an inert step with a memoization key stores its payload
Inert_memoized(es) ==
    IF es.locals.memo_key.some
        THEN [es EXCEPT !.pc = "lock_insert",
                        !.locals.new_payload = es.locals.outgoing_payload]
    ELSE Advance(es, es.locals.outgoing_payload)

\* (mutant) an inert step stores its payload, with or without a prefix
Inert_stored(es) ==
    [es EXCEPT !.pc = "lock_insert",
               !.locals.memo_key =
                   Some(format_memo_key("", hash_value(es.locals.outgoing_payload))),
               !.locals.new_payload = es.locals.outgoing_payload]

\* evaluate.rs 410-415: no service or no method, the postflight runs on the
\* outgoing payload itself
Inert(es) ==
    LET current_step == es.cryptogram.steps[es.step + 1]
        outgoing_payload == es.locals.outgoing_payload
    IN  IF current_step.postflight.some
            THEN LET t == RunTransform(es, "postflight", current_step.postflight.val,
                                       outgoing_payload)
                 IN  IF t.r.st = "ok" THEN Advance(t.es, t.r.value)
                     ELSE TransformFailed(t.es, t.r)
        ELSE Advance(es, outgoing_payload)

\* (mutant) a method the service does not define is requested all the same
Dispatch_unchecked(es) ==
    LET current_step == es.cryptogram.steps[es.step + 1]
        service_name == current_step.service
        method_name == current_step.method
        outgoing_payload == es.locals.outgoing_payload
    IN  IF service_name.some /\ method_name.some
            THEN IF service_name.val \notin DOMAIN Services
                     THEN Return(es, Err(UnknownService(service_name.val)))
                 ELSE [Log(es, <<Event("request", es.step, "", NoKey,
                                       Some(outgoing_payload), 0)>>)
                          EXCEPT !.pc = "await"]
        ELSE Inert(es)

\* evaluate.rs 359-415: the step has no cached value
Dispatch(es) ==
    LET current_step == es.cryptogram.steps[es.step + 1]
        service_name == current_step.service
        method_name == current_step.method
        outgoing_payload == es.locals.outgoing_payload
    IN  IF service_name.some /\ method_name.some
            THEN IF service_name.val \notin DOMAIN Services
                     THEN Return(es, Err(UnknownService(service_name.val)))
                 ELSE LET service == Services[service_name.val]
                      IN  IF method_name.val \notin DOMAIN service.methods
                              THEN Return(es, Err(UnknownMethod(service_name.val,
                                                                method_name.val)))
                          ELSE LET method == service.methods[method_name.val]
                                   uri == Uri_build(service.scheme,
                                                    service.authority, method.path)
                               IN  IF ~uri.some
                                       THEN Return(es, Err(UriBuilderError))
                                   ELSE [Log(es, <<Event("request", es.step, "",
                                                    NoKey, Some(outgoing_payload),
                                                    0)>>)
                                            EXCEPT !.pc = "await"]
        ELSE Inert(es)

\* evaluate.rs 331-356: the loop test, the preflight and the memo key
LoopTop(es) ==
    IF ~(es.step < Len(es.cryptogram.steps))
        THEN IF es.final_result.some
                 THEN Return(es, Ok(es.final_result.val))
             ELSE Return(es, Err(NoStepsSpecified))
    ELSE LET current_step == es.cryptogram.steps[es.step + 1]
             payload == unwrap_or(current_step.payload, Null)
             began == Log(es, <<Event("begin", es.step, "", NoKey,
                                      Some(payload), 0)>>)
             t == IF current_step.preflight.some
                      THEN RunTransform(began, "preflight",
                                        current_step.preflight.val, payload)
                  ELSE [r |-> StepOk(payload, World(began.sp)), es |-> began]
         IN  IF t.r.st # "ok" THEN TransformFailed(t.es, t.r)
             ELSE LET outgoing_payload == t.r.value
                      memo_key ==
                          IF current_step.memoization_prefix.some
                              THEN Some(format_memo_key(
                                       current_step.memoization_prefix.val,
                                       hash_value(outgoing_payload)))
                          ELSE None
                      ready == [Log(t.es, <<Event("outgoing", es.step, "", NoKey,
                                                  Some(outgoing_payload), 0)>>)
                                   EXCEPT !.locals =
                                       [outgoing_payload |-> outgoing_payload,
                                        memo_key |-> memo_key,
                                        maybe_cache |-> None,
                                        new_payload |-> Null]]
                  IN  IF memo_key.some THEN [ready EXCEPT !.pc = "lock_get"]
                      ELSE Dispatch(ready)

\* (mutant) the cached value is ignored: the backend is always called
AfterGet_uncached(es, maybe_cache, t) ==
    [Log(es, <<Event("cache_get", es.step, "",
                     es.locals.memo_key.val, maybe_cache, t)>>)
        EXCEPT !.pc = "got", !.locals.maybe_cache = None]

\* evaluate.rs 352-356: maybe_cache is what get(key).cloned() returned with
\* the lock held; the guard is dropped at the end of the statement
AfterGet(es, maybe_cache, t) ==
    [Log(es, <<Event("cache_get", es.step, "",
                     es.locals.memo_key.val, maybe_cache, t)>>)
        EXCEPT !.pc = "got", !.locals.maybe_cache = maybe_cache]

\* (mutant) the postflight of the step runs on the cached value
NewPayload_postflighted(es) ==
    IF es.locals.maybe_cache.some
        THEN Inert([es EXCEPT !.locals.outgoing_payload = es.locals.maybe_cache.val])
    ELSE Dispatch(es)

\* (mutant) the step is dispatched whatever the lookup returned
NewPayload_always(es) == Dispatch(es)

\* evaluate.rs 357-359: the cached value is the new payload; without one
\* the step is dispatched
NewPayload(es) ==
    IF es.locals.maybe_cache.some THEN Advance(es, es.locals.maybe_cache.val)
    ELSE Dispatch(es)

\* (mutant) a failed request is issued again
RequestFailed_retry(es, response) ==
    [Log(es, <<Event("request", es.step, "", NoKey,
                     Some(es.locals.outgoing_payload), 0)>>)
        EXCEPT !.pc = "await"]

\* evaluate.rs 385-392: issue_request(..).await? returned an error
RequestFailed(es, response) == Return(es, response)

\* evaluate.rs 392-409: the backend answered
AfterResponse(es, response) ==
    LET current_step == es.cryptogram.steps[es.step + 1]
        logged == Log(es, <<Event("response", es.step, "", NoKey,
                                  IF response.st = "ok" THEN Some(response.value)
                                  ELSE None, 0)>>)
    IN  IF response.st # "ok" THEN RequestFailed(logged, response)
        ELSE LET t == IF current_step.postflight.some
                          THEN RunTransform(logged, "postflight",
                                            current_step.postflight.val,
                                            response.value)
                      ELSE [r |-> StepOk(response.value, World(logged.sp)),
                            es |-> logged]
             IN  IF t.r.st # "ok" THEN TransformFailed(t.es, t.r)
                 ELSE IF es.locals.memo_key.some
                     THEN [t.es EXCEPT !.pc = "lock_insert",
                                       !.locals.new_payload = t.r.value]
                 ELSE Advance(t.es, t.r.value)

\* evaluate.rs 403-406: with the lock held, insert(key, new_payload, 600 s)
AfterInsert(es, ret, t) ==
    Advance(Log(es, <<Event("cache_insert", es.step, "", es.locals.memo_key.val,
                            Some(es.locals.new_payload), t)>>),
            ret)

(***************************************************************************)
(* The requests of the model: cryptograms posted to /evaluate, and the     *)
(* edge routes with the bodies posted to them                              *)
(***************************************************************************)
PX == Obj1("a", String("x"))

E1 == EmitEvent(None, "t1", "Search")
E2 == EmitEvent(None, "t2", "SearchResult")

Search(payload) == build("catalog", "search", payload)
Lookup(payload) == build("catalog", "lookup", payload)

Cryptograms ==
    { JsonCryptogram(<<>>),
      JsonCryptogram(<<memoization_prefix(Search(PX), "u1-")>>),
      JsonCryptogram(<<postflight(memoization_prefix(Search(PX), "u1-"), At("a")),
                       Lookup(Null)>>),
      JsonCryptogram(<<postflight(Search(PX), Map(At("a"), Set("x"))),
                       postflight(Lookup(Null), Get("x"))>>),
      JsonCryptogram(<<preflight(inert(Some(String("b"))), Set("x")),
                       postflight(inert(None), Get("x"))>>),
      JsonCryptogram(<<postflight(inert(None), Get("x"))>>),
      JsonCryptogram(<<build("nope", "search", PX), Search(PX)>>),
      JsonCryptogram(<<build("catalog", "nope", PX), Search(PX)>>),
      JsonCryptogram(<<memoization_prefix(build("nope", "search", PX), "u1-")>>),
      JsonCryptogram(<<postflight(memoization_prefix(inert(Some(PX)), "u1-"),
                                  At("a"))>>),
      JsonCryptogram(<<postflight([inert(Some(PX)) EXCEPT !.service = Some("catalog")],
                                  At("a"))>>),
      JsonCryptogram(<<preflight(postflight(Search(PX), Map(E2, E1)), E1),
                       postflight(inert(None), E2)>>),
      JsonCryptogram(<<preflight(Search(String("x")), At("zz")), Search(PX)>>),
      JsonCryptogram(<<postflight(inert(Some(PX)), Flatten), Search(PX)>>),
      JsonCryptogram(<<preflight(postflight(memoization_prefix(Search(PX), "u1-"),
                                            Map(E2, Map(Set("y"), At("a")))),
                                 Map(E1, Set("x")))>>),
      JsonCryptogram(<<memoization_prefix(Search(String("ax")), "u1-")>>) }

EdgeRoutes ==
    { JsonCryptogram(<<preflight(Search(Null), Set("x")),
                       postflight(inert(None), Get("x"))>>),
      JsonCryptogram(<<preflight(Search(Null), At("a"))>>) }

Inputs == {PX, String("b")}

(***************************************************************************)
(* translate::make_state: a new, empty scratchpad                          *)
(***************************************************************************)
\* (mutant) one scratchpad for the whole process
make_state_shared(h) ==
    IF Len(h) = 0 THEN [heap |-> Append(h, EmptyMap), ref |-> 1]
    ELSE [heap |-> h, ref |-> 1]

make_state(h) == [heap |-> Append(h, EmptyMap), ref |-> Len(h) + 1]

(***************************************************************************)
(* The state of one evaluation, read from and written to the variables     *)
(***************************************************************************)
ES(e) ==
    [pc |-> pc[e], cryptogram |-> cryptogram[e], step |-> step_idx[e],
     locals |-> locals[e], final_result |-> final_result[e],
     result |-> result[e], trace |-> trace[e],
     sp |-> heap[translator_state[e]]]

\* do_evaluate is entered: final_result = None, step = 0
Entry(c, sp) ==
    [pc |-> "loop", cryptogram |-> c, step |-> 0, locals |-> NoLocals,
     final_result |-> None, result |-> Pending, trace |-> <<>>, sp |-> sp]

Request(e, es) ==
    [eval |-> e, step |-> es.step, payload |-> es.locals.outgoing_payload]

Commit(e, es, h, ref) ==
    /\ pc' = [pc EXCEPT ![e] = es.pc]
    /\ cryptogram' = [cryptogram EXCEPT ![e] = es.cryptogram]
    /\ step_idx' = [step_idx EXCEPT ![e] = es.step]
    /\ locals' = [locals EXCEPT ![e] = es.locals]
    /\ final_result' = [final_result EXCEPT ![e] = es.final_result]
    /\ result' = [result EXCEPT ![e] = es.result]
    /\ trace' = [trace EXCEPT ![e] = es.trace]
    /\ heap' = [h EXCEPT ![ref] = es.sp]
    /\ translator_state' = [translator_state EXCEPT ![e] = ref]
    /\ inflight' = IF es.pc = "await" THEN inflight \cup {Request(e, es)}
                   ELSE inflight

Continue(e, es) == Commit(e, es, heap, translator_state[e])

Finished == {f \in Evals : pc[f] = "done"}

(***************************************************************************)
(* Initial state: an empty cache, no request in progress                   *)
(***************************************************************************)
NoLast ==
    [op |-> "none", key |-> NoKey, value |-> Null, ttl |-> 0, ret |-> None,
     before |-> MemoizationCache_empty]

\* the request a handler was given: the cryptogram (posted to /evaluate, or
\* configured for the edge route) and the inbound body of an edge route
Posted(c, route, body) == [steps |-> c.steps, route |-> route, body |-> body]

\* (mutant) the first payload is set but the preflight is left in place
Bind_uncleared(es, input) ==
    [es EXCEPT !.cryptogram.steps[1].payload = Some(input)]

\* evaluate.rs 555-556: steps[0].payload = Some(input), steps[0].preflight = None
Bind(es, input) ==
    [es EXCEPT !.cryptogram.steps[1].payload = Some(input),
               !.cryptogram.steps[1].preflight = None]

NoProbe == [op |-> "none"]

\* everything the request handlers work on, before the first request
Start ==
    /\ cache = MemoizationCache_empty
    /\ cache_lock = "free"
    /\ now = 0
    /\ ticks = 0
    /\ heap = <<>>
    /\ pc = [e \in Evals |-> "idle"]
    /\ cryptogram = [e \in Evals |-> JsonCryptogram(<<>>)]
    /\ step_idx = [e \in Evals |-> 0]
    /\ translator_state = [e \in Evals |-> 0]
    /\ locals = [e \in Evals |-> NoLocals]
    /\ final_result = [e \in Evals |-> None]
    /\ result = [e \in Evals |-> Pending]
    /\ inflight = {}
    /\ trace = [e \in Evals |-> <<>>]
    /\ began_after = [e \in Evals |-> {}]
    /\ posted = [e \in Evals |-> Posted(JsonCryptogram(<<>>), "none", None)]
    /\ last = NoLast

Init == Start /\ probe = NoProbe

(***************************************************************************)
(* The request handlers                                                    *)
(***************************************************************************)
\* POST /evaluate (evaluate.rs 212-231)
evaluate(e) ==
    /\ pc[e] = "idle"
    /\ \E c \in Cryptograms :
          LET m == make_state(heap)
          IN  /\ Commit(e, Entry(c, m.heap[m.ref]), m.heap, m.ref)
              /\ posted' = [posted EXCEPT ![e] = Posted(c, "evaluate", None)]
    /\ began_after' = [began_after EXCEPT ![e] = Finished]
    /\ UNCHANGED <<probe, cache, cache_lock, now, ticks, last>>

\* an edge route (evaluate.rs 534-568): the first step's preflight runs on
\* the inbound body, becomes the first payload and is cleared
bound_function(e) ==
    /\ pc[e] = "idle"
    /\ \E edge_route \in EdgeRoutes, body \in Inputs :
          LET m == make_state(heap)
              c == edge_route
              es == Entry(c, m.heap[m.ref])
          IN  /\ posted' = [posted EXCEPT ![e] = Posted(c, "edge", Some(body))]
              /\ IF Len(c.steps) # 0 /\ c.steps[1].preflight.some
                     THEN LET t == RunTransform(es, "edge_preflight",
                                                c.steps[1].preflight.val, body)
                          IN  IF t.r.st # "ok"
                                  THEN Commit(e, TransformFailed(t.es, t.r),
                                              m.heap, m.ref)
                              ELSE Commit(e, Bind(t.es, t.r.value), m.heap, m.ref)
                 ELSE Commit(e, es, m.heap, m.ref)
    /\ began_after' = [began_after EXCEPT ![e] = Finished]
    /\ UNCHANGED <<probe, cache, cache_lock, now, ticks, last>>

(***************************************************************************)
(* do_evaluate, one action per stretch between suspension points           *)
(***************************************************************************)
LoopStep(e) ==
    /\ pc[e] = "loop"
    /\ Continue(e, LoopTop(ES(e)))
    /\ UNCHANGED <<probe, cache, cache_lock, now, ticks, began_after, posted, last>>

\* memoization_cache.lock().await is granted (before get)
LockForGet(e) ==
    /\ pc[e] = "lock_get"
    /\ cache_lock = "free"
    /\ cache_lock' = e
    /\ pc' = [pc EXCEPT ![e] = "get"]
    /\ UNCHANGED <<probe, cache, now, ticks, heap, cryptogram, step_idx,
                   translator_state, locals, final_result, result, inflight,
                   trace, began_after, posted, last>>

\* (mutant) the guard of the lookup lives on after the statement
CacheGet_holding(e) ==
    /\ pc[e] = "get"
    /\ cache_lock = e
    /\ LET maybe_cache == MemoizationCache_get(cache, now, locals[e].memo_key.val)
       IN  Continue(e, AfterGet(ES(e), maybe_cache, now))
    /\ UNCHANGED <<probe, cache, cache_lock, now, ticks, began_after, posted, last>>

\* the lookup, with the lock held; the guard is dropped at the end of it
CacheGet(e) ==
    /\ pc[e] = "get"
    /\ cache_lock = e
    /\ LET maybe_cache == MemoizationCache_get(cache, now, locals[e].memo_key.val)
       IN  Continue(e, AfterGet(ES(e), maybe_cache, now))
    /\ cache_lock' = "free"
    /\ UNCHANGED <<probe, cache, now, ticks, began_after, posted, last>>

\* the lock is free again: the step goes on with what the lookup returned
AfterLookup(e) ==
    /\ pc[e] = "got"
    /\ Continue(e, NewPayload(ES(e)))
    /\ UNCHANGED <<probe, cache, cache_lock, now, ticks, began_after, posted, last>>

\* the backend answers the outstanding request
Response(e) ==
    /\ pc[e] = "await"
    /\ LET req == Request(e, ES(e))
       IN  /\ req \in inflight
           /\ \E response \in issue_request("POST", "uri", req.payload, <<>>) :
                 LET es == AfterResponse(ES(e), response)
                 IN  /\ pc' = [pc EXCEPT ![e] = es.pc]
                     /\ cryptogram' = [cryptogram EXCEPT ![e] = es.cryptogram]
                     /\ step_idx' = [step_idx EXCEPT ![e] = es.step]
                     /\ locals' = [locals EXCEPT ![e] = es.locals]
                     /\ final_result' = [final_result EXCEPT ![e] = es.final_result]
                     /\ result' = [result EXCEPT ![e] = es.result]
                     /\ trace' = [trace EXCEPT ![e] = es.trace]
                     /\ heap' = [heap EXCEPT ![translator_state[e]] = es.sp]
           /\ inflight' = inflight \ {req}
    /\ UNCHANGED <<probe, cache, cache_lock, now, ticks, translator_state,
                   began_after, posted, last>>

\* memoization_cache.lock().await is granted (before insert)
LockForInsert(e) ==
    /\ pc[e] = "lock_insert"
    /\ cache_lock = "free"
    /\ cache_lock' = e
    /\ pc' = [pc EXCEPT ![e] = "insert"]
    /\ UNCHANGED <<probe, cache, now, ticks, heap, cryptogram, step_idx,
                   translator_state, locals, final_result, result, inflight,
                   trace, began_after, posted, last>>

CacheInsert(e) ==
    /\ pc[e] = "insert"
    /\ cache_lock = e
    /\ LET ins == MemoizationCache_insert(cache, now, locals[e].memo_key.val,
                                          locals[e].new_payload, TTL_SECS)
       IN  /\ cache' = ins.cache
           /\ Continue(e, AfterInsert(ES(e), ins.ret, now))
    /\ cache_lock' = "free"
    /\ UNCHANGED <<probe, now, ticks, began_after, posted, last>>

\* time passes
Tick ==
    /\ ticks < MaxTicks
    /\ \E d \in TickSizes : now' = now + d
    /\ ticks' = ticks + 1
    /\ last' = NoLast
    /\ UNCHANGED <<probe, cache, cache_lock, heap, pc, cryptogram, step_idx,
                   translator_state, locals, final_result, result, inflight,
                   trace, began_after, posted>>

Next ==
    \/ \E e \in Evals : evaluate(e)
    \/ \E e \in Evals : bound_function(e)
    \/ \E e \in Evals : LoopStep(e)
    \/ \E e \in Evals : LockForGet(e)
    \/ \E e \in Evals : CacheGet(e)
    \/ \E e \in Evals : AfterLookup(e)
    \/ \E e \in Evals : Response(e)
    \/ \E e \in Evals : LockForInsert(e)
    \/ \E e \in Evals : CacheInsert(e)
    \/ Tick

Spec == Init /\ [][Next]_vars

(***************************************************************************)
(* The cache on its own: get and insert called directly, with any key,     *)
(* value and TTL, while time passes                                        *)
(***************************************************************************)
MaxCacheTicks == 3             \* clock advances while the cache is exercised

ApiKeys == {format_memo_key("u1-", hash_value(v)) : v \in {PX, String("x")}}
ApiValues == {Null, String("y")}
ApiTtls == {0, 1, TTL_SECS}
ApiTickSizes == {1, TTL_SECS}

ApiInsert ==
    /\ \E key \in ApiKeys, value \in ApiValues, ttl \in ApiTtls :
          LET ins == MemoizationCache_insert(cache, now, key, value, ttl)
          IN  /\ cache' = ins.cache
              /\ last' = [op |-> "insert", key |-> key, value |-> value,
                          ttl |-> ttl, ret |-> Some(ins.ret), before |-> cache]
    /\ UNCHANGED <<probe, cache_lock, now, ticks, heap, pc, cryptogram, step_idx,
                   translator_state, locals, final_result, result, inflight,
                   trace, began_after, posted>>

ApiGet ==
    /\ \E key \in ApiKeys :
          last' = [op |-> "get", key |-> key, value |-> Null, ttl |-> 0,
                   ret |-> MemoizationCache_get(cache, now, key),
                   before |-> cache]
    /\ UNCHANGED <<probe, cache, cache_lock, now, ticks, heap, pc, cryptogram, step_idx,
                   translator_state, locals, final_result, result, inflight,
                   trace, began_after, posted>>

ApiTick ==
    /\ ticks < MaxCacheTicks
    /\ \E d \in ApiTickSizes : now' = now + d
    /\ ticks' = ticks + 1
    /\ last' = NoLast
    /\ UNCHANGED <<probe, cache, cache_lock, heap, pc, cryptogram, step_idx,
                   translator_state, locals, final_result, result, inflight,
                   trace, began_after, posted>>

CacheNext == ApiInsert \/ ApiGet \/ ApiTick

CacheSpec == Init /\ [][CacheNext]_vars

(***************************************************************************)
(* Reading the record of an evaluation                                     *)
(***************************************************************************)
Events(e, ev) == {p \in 1..Len(trace[e]) : trace[e][p].ev = ev}

EventsAt(e, ev, i) == {p \in Events(e, ev) : trace[e][p].step = i}

Steps(e) == cryptogram[e].steps

\* the evaluation was posted one backend step that carries a memoization prefix
OneMemoizedStep(e) ==
    /\ Len(posted[e].steps) = 1
    /\ posted[e].steps[1].service.some
    /\ posted[e].steps[1].method.some
    /\ posted[e].steps[1].memoization_prefix.some

BackendCalls(e) == Cardinality(Events(e, "request"))

(***************************************************************************)
(* C1. When every step succeeds, do_evaluate returns the new payload of    *)
(* the last step; the new payload of step i is written as the payload of   *)
(* step i+1 before step i+1 runs, replacing the payload it carried.        *)
(***************************************************************************)
C1_PayloadForwarded ==
    \A e \in Evals :
        /\ \A p \in Events(e, "new_payload") :
              LET i == trace[e][p].step
              IN  IF i + 1 < Len(Steps(e))
                      THEN /\ Steps(e)[i + 2].payload = trace[e][p].v
                           /\ \A q \in EventsAt(e, "begin", i + 1) :
                                 q > p /\ trace[e][q].v = trace[e][p].v
                  ELSE final_result[e] = trace[e][p].v
        /\ \A q \in Events(e, "begin") :
              trace[e][q].step >= 1 =>
                  \E p \in EventsAt(e, "new_payload", trace[e][q].step - 1) : p < q
        /\ result[e].st = "ok" =>
              /\ Len(Steps(e)) >= 1
              /\ \E p \in EventsAt(e, "new_payload", Len(Steps(e)) - 1) :
                    trace[e][p].v = Some(result[e].value)

\* a two-step evaluation succeeded, and the payload its second step carried
\* was replaced
C1_Witness ==
    \E e \in Evals :
        /\ result[e].st = "ok"
        /\ Len(posted[e].steps) = 2
        /\ posted[e].steps[2].payload = Some(Null)
        /\ Steps(e)[2].payload # Some(Null)

\* b began after a had returned a value; both were posted the same memoized
\* step and payload, and b read the cache within the TTL of a's entry
InSequenceWithinTtl(a, b) ==
    /\ a # b
    /\ pc[a] = "done" /\ pc[b] = "done"
    /\ a \in began_after[b]
    /\ OneMemoizedStep(a) /\ OneMemoizedStep(b)
    /\ posted[a].steps[1].memoization_prefix = posted[b].steps[1].memoization_prefix
    /\ result[a].st = "ok"
    /\ \E p \in Events(a, "outgoing"), q \in Events(b, "outgoing") :
          trace[a][p].v = trace[b][q].v
    /\ \E p \in Events(a, "cache_insert"), q \in Events(b, "cache_get") :
          trace[b][q].at - trace[a][p].at <= TTL_SECS

(***************************************************************************)
(* C2. One memoized backend step, evaluated twice in sequence against the  *)
(* same cache with the same outgoing payload and within the 600 s TTL:     *)
(* the backend is called once in total, and the second evaluation returns  *)
(* the value the first returned.                                           *)
(***************************************************************************)
C2_MemoizationHit ==
    \A a \in Evals, b \in Evals :
        InSequenceWithinTtl(a, b) =>
            /\ BackendCalls(a) + BackendCalls(b) = 1
            /\ result[b] = result[a]

\* the second evaluation read the cache exactly one TTL after the first wrote it
C2_Witness ==
    \E a \in Evals, b \in Evals :
        /\ InSequenceWithinTtl(a, b)
        /\ \E p \in Events(a, "cache_insert"), q \in Events(b, "cache_get") :
              trace[b][q].at - trace[a][p].at = TTL_SECS

\* an entry for key is stored and no more than its TTL has elapsed
Live(c, t, key) == key \in DOMAIN c /\ t - c[key].cached_at <= c[key].ttl

\* what a get returned: the stored value exactly when the entry is live
C3_GetWhenLive ==
    last.op = "get" =>
        last.ret = IF Live(cache, now, last.key) THEN Some(cache[last.key].value)
                   ELSE None

\* entries are never removed, and an expired one stays absent until replaced
C3_StaysExpired ==
    \A key \in DOMAIN cache :
        /\ key \in DOMAIN cache'
        /\ (~Live(cache, now, key) /\ cache'[key] = cache[key]) =>
               MemoizationCache_get(cache', now', key) = None

(***************************************************************************)
(* C3. get(k) returns the stored value exactly when an entry for k exists  *)
(* and at most its TTL has elapsed since its insert; an expired entry is   *)
(* reported absent in every later state until k is inserted again, though  *)
(* it is never physically removed.                                         *)
(***************************************************************************)
C3_CacheTtl == []C3_GetWhenLive /\ [][C3_StaysExpired]_vars

\* a get found the entry still stored, but expired, and reported it absent
C3_Witness ==
    /\ last.op = "get"
    /\ last.key \in DOMAIN cache
    /\ now - cache[last.key].cached_at > cache[last.key].ttl
    /\ last.ret = None

(***************************************************************************)
(* C4. When step i fails, do_evaluate returns that error and no final      *)
(* value; nothing is done for any step after i, and step i writes nothing  *)
(* to the memoization cache.                                               *)
(***************************************************************************)
C4_FailFast ==
    \A e \in Evals :
        (result[e].st = "err" /\ result[e].err.kind # "NoStepsSpecified") =>
            LET i == step_idx[e]
            IN  /\ pc[e] = "done"
                /\ final_result[e] = None
                /\ \A p \in 1..Len(trace[e]) : trace[e][p].step <= i
                /\ EventsAt(e, "cache_insert", i) = {}
                /\ EventsAt(e, "new_payload", i) = {}
                /\ Cardinality(Events(e, "return")) = 1
                /\ trace[e][Len(trace[e])].ev = "return"
                /\ \A r \in inflight : r.eval # e

\* the postflight of a memoized first step failed on the backend's answer
C4_Witness ==
    \E e \in Evals :
        /\ result[e].st = "err"
        /\ result[e].err.kind = "InvalidStructure"
        /\ step_idx[e] = 0
        /\ Len(Steps(e)) = 2
        /\ Steps(e)[1].memoization_prefix.some
        /\ EventsAt(e, "response", 0) # {}

(***************************************************************************)
(* C5. A cryptogram with zero steps yields NoStepsSpecified, and nothing   *)
(* else happens: no request, no transform, no cache access.  A cryptogram  *)
(* with at least one step never yields NoStepsSpecified.                   *)
(***************************************************************************)
C5_NoStepsSpecified ==
    \A e \in Evals :
        pc[e] = "done" =>
            IF Len(posted[e].steps) = 0
                THEN /\ result[e] = Err(NoStepsSpecified)
                     /\ Len(trace[e]) = 1
                     /\ trace[e][1].ev = "return"
                     /\ heap[translator_state[e]] = EmptyMap
            ELSE result[e].err.kind # "NoStepsSpecified"

\* an evaluation of zero steps returned while the cache held an entry
C5_Witness ==
    \E e \in Evals :
        /\ pc[e] = "done"
        /\ Len(posted[e].steps) = 0
        /\ result[e].st = "err"
        /\ DOMAIN cache # {}

Begun(e) == SelectSeq(trace[e], LAMBDA x : x.ev = "begin")

(***************************************************************************)
(* C6. The step index starts at 0 and grows by one per processed step;     *)
(* steps are processed in list order, never twice, so the backend request  *)
(* of step i is issued before that of step j whenever i < j.               *)
(***************************************************************************)
C6_StepOrder ==
    \A e \in Evals :
        /\ \A j \in 1..Len(Begun(e)) : Begun(e)[j].step = j - 1
        /\ step_idx[e] <= Len(Begun(e))
        /\ Len(Begun(e)) <= step_idx[e] + 1
        /\ step_idx[e] <= Len(Steps(e))
        /\ \A p \in 1..Len(trace[e]), q \in 1..Len(trace[e]) :
              p < q => trace[e][p].step <= trace[e][q].step
        /\ \A p \in Events(e, "request"), q \in Events(e, "request") :
              p < q => trace[e][p].step < trace[e][q].step

\* an evaluation finished after issuing the requests of two steps
C6_Witness ==
    \E e \in Evals :
        /\ pc[e] = "done"
        /\ EventsAt(e, "request", 0) # {}
        /\ EventsAt(e, "request", 1) # {}

Outstanding(e) == {r \in inflight : r.eval = e}

(***************************************************************************)
(* C7. Each step issues at most one backend request and at most one        *)
(* request of an evaluation is outstanding: the request of a later step is *)
(* issued only after the response of the earlier one was received and      *)
(* post-processed.                                                         *)
(***************************************************************************)
C7_OneRequestAtATime ==
    \A e \in Evals :
        /\ Cardinality(Outstanding(e)) <= 1
        /\ (Outstanding(e) # {}) <=> (pc[e] = "await")
        /\ \A r \in Outstanding(e) : r.step = step_idx[e]
        /\ \A i \in 0..Len(Steps(e)) : Cardinality(EventsAt(e, "request", i)) <= 1
        /\ \A p \in Events(e, "request"), q \in Events(e, "request") :
              p < q =>
                  \E r \in EventsAt(e, "response", trace[e][p].step),
                     n \in EventsAt(e, "new_payload", trace[e][p].step) :
                        p < r /\ r < n /\ n < q

\* two evaluations wait for their backends at once, one of them in its
\* second step
C7_Witness ==
    \E e \in Evals, f \in Evals :
        /\ e # f
        /\ Outstanding(e) # {} /\ Outstanding(f) # {}
        /\ step_idx[e] = 1
        /\ EventsAt(e, "response", 0) # {}

SetsBefore(e, q) ==
    {p \in Events(e, "set") : p < q /\ trace[e][p].name = trace[e][q].name}

SetsOf(e, n) == {p \in Events(e, "set") : trace[e][p].name = n}

Latest(ps) == CHOOSE p \in ps : \A o \in ps : o <= p

(***************************************************************************)
(* C8. The value a Set stored under a name in step i is what Get of that   *)
(* name returns in any step j >= i of the same evaluation, until a later   *)
(* Set of that evaluation replaces it.                                     *)
(***************************************************************************)
C8_SetVisibleToGet ==
    \A e \in Evals :
        /\ \A q \in Events(e, "get") :
              SetsBefore(e, q) # {} =>
                  trace[e][q].v = trace[e][Latest(SetsBefore(e, q))].v
        /\ pc[e] # "idle" =>
              LET sp == heap[translator_state[e]]
              IN  /\ DOMAIN sp = {trace[e][p].name : p \in Events(e, "set")}
                  /\ \A n \in DOMAIN sp :
                        Some(sp[n]) = trace[e][Latest(SetsOf(e, n))].v

\* a Get in the second step returned what a Set stored in the first step
C8_Witness ==
    \E e \in Evals :
        \E p \in Events(e, "set"), q \in Events(e, "get") :
            /\ trace[e][p].step = 0
            /\ trace[e][q].step = 1
            /\ trace[e][p].name = trace[e][q].name
            /\ trace[e][q].v = trace[e][p].v
            /\ trace[e][q].v.some

(***************************************************************************)
(* C9. Every request handler makes a fresh, empty scratchpad: a Set of one *)
(* evaluation is never seen by a Get of another evaluation.                *)
(***************************************************************************)
C9_ScratchpadNotShared ==
    /\ \A e \in Evals, f \in Evals :
          (e # f /\ pc[e] # "idle" /\ pc[f] # "idle") =>
              translator_state[e] # translator_state[f]
    /\ \A e \in Evals :
          \A q \in Events(e, "get") :
              SetsBefore(e, q) = {} => trace[e][q].v = None

\* an evaluation that began after another had set a name and finished asked
\* for that name and did not find it
C9_Witness ==
    \E a \in Evals, b \in Evals :
        /\ a \in began_after[b]
        /\ \E p \in Events(a, "set"), q \in Events(b, "get") :
              /\ trace[a][p].name = trace[b][q].name
              /\ trace[b][q].v = None

(***************************************************************************)
(* C10. insert(k, v, ttl) replaces any entry for k, live or expired,       *)
(* restarts its age with the new TTL, returns v and leaves the entries of  *)
(* all other keys as they were; a get(k) right after it returns v.         *)
(***************************************************************************)
C10_InsertOverwrites ==
    last.op = "insert" =>
        /\ last.key \in DOMAIN cache
        /\ cache[last.key] =
               [cached_at |-> now, ttl |-> last.ttl, value |-> last.value]
        /\ last.ret = Some(last.value)
        /\ DOMAIN cache = (DOMAIN last.before) \cup {last.key}
        /\ \A k \in (DOMAIN last.before) \ {last.key} : cache[k] = last.before[k]
        /\ MemoizationCache_get(cache, now, last.key) = Some(last.value)

\* an insert replaced an expired entry of another value while another key
\* was stored
C10_Witness ==
    /\ last.op = "insert"
    /\ last.key \in DOMAIN last.before
    /\ ~Live(last.before, now, last.key)
    /\ last.before[last.key].value # last.value
    /\ (DOMAIN last.before) \ {last.key} # {}

(***************************************************************************)
(* hash_value on its own: the memo keys of two outgoing payloads under one *)
(* prefix (evaluate.rs 348-350).  The payloads are objects of one or two   *)
(* keys, bare, nested in an object or in an array, each in every order its *)
(* Map can iterate in.                                                     *)
(***************************************************************************)
HashMaps ==
    { [k \in {"a", "b"} |-> IF k = "a" THEN Number(1) ELSE Number(2)],
      [k \in {"a", "b"} |-> IF k = "a" THEN Number(2) ELSE Number(1)] }

HashLeaves == {ObjectIn(m, ord) : m \in HashMaps, ord \in {<<"a", "b">>, <<"b", "a">>}}

HashDocs ==
    HashLeaves
        \cup {Array(<<d>>) : d \in HashLeaves}
        \cup {ObjectIn([k \in {"x", "y"} |-> IF k = "x" THEN d ELSE Null], ord) :
                 d \in HashLeaves, ord \in {<<"x", "y">>, <<"y", "x">>}}
        \cup {Obj2("a", Number(1), "b", Number(2)), String("ab"), Null}

HashPrefixes == {"u1-", "u2-"}

HashInit ==
    /\ Start
    /\ \E a \in HashDocs, b \in HashDocs, prefix \in HashPrefixes :
          probe = [op |-> "hash", prefix |-> prefix,
                   payload |-> [side \in {"a", "b"} |-> IF side = "a" THEN a ELSE b],
                   memo_key |-> [side \in {"a", "b"} |-> None]]

\* memo_key = format!("{}{}", prefix, hash_value(&outgoing_payload))
HashPayload(side) ==
    /\ probe.op = "hash"
    /\ ~probe.memo_key[side].some
    /\ probe' = [probe EXCEPT !.memo_key[side] =
                     Some(format_memo_key(probe.prefix,
                                          hash_value(probe.payload[side])))]
    /\ UNCHANGED <<cache, cache_lock, now, ticks, heap, pc, cryptogram, step_idx,
                   translator_state, locals, final_result, result, inflight,
                   trace, began_after, posted, last>>

HashNext == \E side \in {"a", "b"} : HashPayload(side)

HashSpec == HashInit /\ [][HashNext]_vars

\* both memo keys are computed
Hashed == probe.memo_key["a"].some /\ probe.memo_key["b"].some

(***************************************************************************)
(* C11. Two JSON values with the same content, whatever the order in which *)
(* the keys of their objects were inserted, at any depth, have the same    *)
(* hash_value, hence the same memo key under one prefix.                   *)
(***************************************************************************)
C11_HashOrderIndependent ==
    (Hashed /\ Content(probe.payload["a"]) = Content(probe.payload["b"])) =>
        /\ probe.memo_key["a"].val.hash = probe.memo_key["b"].val.hash
        /\ probe.memo_key["a"] = probe.memo_key["b"]

\* the two payloads hold the same entries; their outer objects and the
\* objects nested in them iterate in different orders
C11_Witness ==
    /\ Hashed
    /\ Content(probe.payload["a"]) = Content(probe.payload["b"])
    /\ "ord" \in DOMAIN probe.payload["a"]
    /\ "ord" \in DOMAIN probe.payload["b"]
    /\ probe.payload["a"].ord # probe.payload["b"].ord
    /\ "x" \in DOMAIN probe.payload["a"].o
    /\ probe.payload["a"].o["x"].ord # probe.payload["b"].o["x"].ord

\* step i of e went past its memoization lookup without a hit
Dispatched(e, i) ==
    /\ EventsAt(e, "outgoing", i) # {}
    /\ ~(step_idx[e] = i /\ pc[e] = "got")
    /\ Steps(e)[i + 1].memoization_prefix.some =>
           \E p \in EventsAt(e, "cache_get", i) : ~trace[e][p].v.some

BackendStep(e, i) == Steps(e)[i + 1].service.some /\ Steps(e)[i + 1].method.some

(***************************************************************************)
(* C12. A step with service and method set and no memoization hit fails    *)
(* with UnknownService(name) when the registry has no such service, and    *)
(* with UnknownMethod(service, method) when the service has no such        *)
(* method; in both cases no backend request is issued for it.              *)
(***************************************************************************)
C12_UnknownServiceOrMethod ==
    \A e \in Evals :
        \A i \in 0..(Len(Steps(e)) - 1) :
            (BackendStep(e, i) /\ Dispatched(e, i)) =>
                LET service == Steps(e)[i + 1].service.val
                    method == Steps(e)[i + 1].method.val
                IN  IF service \notin {"catalog"}
                        THEN /\ result[e] = Err(UnknownService(service))
                             /\ result[e].err.kind = "UnknownService"
                             /\ result[e].err.a = service
                             /\ EventsAt(e, "request", i) = {}
                    ELSE IF method \notin {"search", "lookup"}
                        THEN /\ result[e] = Err(UnknownMethod(service, method))
                             /\ result[e].err.kind = "UnknownMethod"
                             /\ result[e].err.a = service
                             /\ result[e].err.b = method
                             /\ EventsAt(e, "request", i) = {}
                    ELSE EventsAt(e, "request", i) # {}

\* one evaluation named a method its service lacks; another named an
\* unknown service in a memoized step and failed after missing the cache
C12_Witness ==
    \E e \in Evals, f \in Evals :
        /\ result[e].err.kind = "UnknownMethod"
        /\ result[f].err.kind = "UnknownService"
        /\ \E p \in EventsAt(f, "cache_get", 0) : ~trace[f][p].v.some

\* the scratchpad of e as its Sets before position p of its record left it
SpAt(e, p) ==
    LET before == {q \in Events(e, "set") : q < p}
    IN  [n \in {trace[e][q].name : q \in before} |->
            trace[e][Latest({q \in before : trace[e][q].name = n})].v.val]

\* the postflight of step i applied to its preflighted payload, or that
\* payload when it has no postflight; p is where its new payload was recorded
ShapedPayload(e, i, p) ==
    LET s == Steps(e)[i + 1]
        b == CHOOSE q \in EventsAt(e, "begin", i) : TRUE
        payload == trace[e][b].v.val
        out == IF s.preflight.some
                   THEN step(Ctx, s.preflight.val, payload, World(SpAt(e, b))).value
               ELSE payload
        at == IF EventsAt(e, "postflight", i) # {}
                  THEN CHOOSE q \in EventsAt(e, "postflight", i) : TRUE
              ELSE p
    IN  IF s.postflight.some
            THEN step(Ctx, s.postflight.val, out, World(SpAt(e, at))).value
        ELSE out

InertStep(e, i) == ~Steps(e)[i + 1].service.some /\ ~Steps(e)[i + 1].method.some

\* C13 as stated: the new payload of every inert step is its shaped payload
C13_InertAlwaysShaped ==
    \A e \in Evals :
        \A p \in Events(e, "new_payload") :
            InertStep(e, trace[e][p].step) =>
                trace[e][p].v = Some(ShapedPayload(e, trace[e][p].step, p))

(***************************************************************************)
(* C13 (amended). A backend request is issued only for a step with both    *)
(* service and method set.  A step with both absent issues no request,     *)
(* and unless its memoization lookup hits, its new payload is its          *)
(* postflight applied to its preflighted payload, or that payload itself   *)
(* when it has no postflight.                                              *)
(***************************************************************************)
C13_InertStep ==
    \A e \in Evals :
        /\ \A p \in Events(e, "request") : BackendStep(e, trace[e][p].step)
        /\ \A p \in Events(e, "new_payload") :
              LET i == trace[e][p].step
              IN  (InertStep(e, i) /\ Dispatched(e, i)) =>
                      /\ EventsAt(e, "request", i) = {}
                      /\ trace[e][p].v = Some(ShapedPayload(e, i, p))

\* an inert step with a memoization prefix missed the cache and handed on
\* its postflight's result, which is not its payload
C13_Witness ==
    \E e \in Evals :
        \E p \in Events(e, "new_payload") :
            LET i == trace[e][p].step
            IN  /\ InertStep(e, i) /\ Dispatched(e, i)
                /\ Steps(e)[i + 1].memoization_prefix.some
                /\ Steps(e)[i + 1].postflight.some
                /\ trace[e][p].v # Steps(e)[i + 1].payload

\* e serves an edge route whose first step has a preflight
EdgePreflighted(e) ==
    /\ posted[e].route = "edge"
    /\ Len(posted[e].steps) # 0
    /\ posted[e].steps[1].preflight.some

(***************************************************************************)
(* C14. On an edge route whose first step has a preflight, that preflight  *)
(* is evaluated exactly once, on the inbound body, before the sweep; its   *)
(* result is the first step's payload and the preflight is cleared, so the *)
(* sweep never applies it.  When it fails, the sweep does not start.       *)
(***************************************************************************)
C14_EdgePreflightOnce ==
    \A e \in Evals :
        EdgePreflighted(e) =>
            LET pf == posted[e].steps[1].preflight.val
                r == step(Ctx, pf, posted[e].body.val, World(EmptyMap))
            IN  /\ Events(e, "edge_preflight") = {1}
                /\ trace[e][1].v = posted[e].body
                /\ EventsAt(e, "preflight", 0) = {}
                /\ IF r.st = "ok"
                       THEN /\ Steps(e)[1].payload = Some(r.value)
                            /\ Steps(e)[1].preflight = None
                            /\ \A q \in EventsAt(e, "begin", 0) :
                                  trace[e][q].v = Some(r.value)
                            /\ \A q \in EventsAt(e, "outgoing", 0) :
                                  trace[e][q].v = Some(r.value)
                   ELSE /\ result[e] = Err(InvalidStructure(r))
                        /\ Events(e, "begin") = {}

\* the body {"a": "x"} went through the preflight At("a") once: the request
\* of the first step carried "x"
C14_Witness ==
    \E e \in Evals :
        /\ EdgePreflighted(e)
        /\ posted[e].steps[1].preflight.val = At("a")
        /\ posted[e].body = Some(PX)
        /\ \E p \in EventsAt(e, "request", 0) : trace[e][p].v = Some(String("x"))

\* one error of every variant of EvaluateError
EvaluateErrors ==
    { ClientError, InvalidJsonError, InvalidPayloadError, UnknownStep(1),
      InvalidStructure(StepError(<<"[0]", "a">>, Some(Array(<<String("b")>>)),
                                 World(EmptyMap))),
      InvalidStructure(StepError(<<"a">>, None, World(EmptyMap))),
      InvalidTransition(<<0, 1>>, 2), NetworkError(String("x")),
      NetworkError(Obj1("a", String("x"))), NoStepsSpecified,
      UnknownMethod("catalog", "nope"), UnknownService("nope"),
      UriBuilderError, Utf8Error }

\* the "err" of the body, by variant (spec 6.5)
ErrKind(kind) ==
    CASE kind = "ClientError" -> "client"
      [] kind = "InvalidJsonError" -> "protocol"
      [] kind = "InvalidPayloadError" -> "payload"
      [] kind = "UnknownStep" -> "unknown_step"
      [] kind = "InvalidStructure" -> "invalid_structure"
      [] kind = "InvalidTransition" -> "unknown_transition"
      [] kind = "NoStepsSpecified" -> "no_steps_specified"
      [] kind = "UnknownMethod" -> "unknown_method"
      [] kind = "UnknownService" -> "unknown_service"
      [] kind = "UriBuilderError" -> "uri_builder_error"
      [] kind = "Utf8Error" -> "utf8_error"

\* r is the 500 answer the claim describes for the error err
ErrorAnswer(r, err) ==
    /\ r.status = 500
    /\ IF err.kind = "NetworkError" THEN r.body = err.context
       ELSE /\ r.body.t = "obj"
            /\ "err" \in DOMAIN r.body.o
            /\ r.body.o["err"] = String(ErrKind(err.kind))

(***************************************************************************)
(* C15. POST /evaluate answers 200 with the final value when do_evaluate   *)
(* succeeds and 500 for every EvaluateError; the body of the 500 is an     *)
(* object whose "err" is fixed by the variant, except that the body of a   *)
(* NetworkError is the upstream context itself.                            *)
(***************************************************************************)
C15_HttpAnswer ==
    /\ \A e \in Evals :
          (pc[e] = "done" /\ posted[e].route = "evaluate") =>
              LET r == respond(result[e])
              IN  /\ result[e].st = "ok" =>
                         r.status = 200 /\ Some(r.body) = final_result[e]
                  /\ result[e].st = "err" => ErrorAnswer(r, result[e].err)
    /\ \A err \in EvaluateErrors : ErrorAnswer(respond(Err(err)), err)

\* of two requests to /evaluate one was answered 200 with its final value,
\* the other 500 with the context of the backend's failure as its body
C15_Witness ==
    \E e \in Evals, f \in Evals :
        /\ pc[e] = "done" /\ posted[e].route = "evaluate"
        /\ pc[f] = "done" /\ posted[f].route = "evaluate"
        /\ result[e].st = "ok" /\ respond(result[e]).status = 200
        /\ result[f].err.kind = "NetworkError"
        /\ respond(result[f]).body = String("x")

(***************************************************************************)
(* headers::authorization.  A string of this part is the sequence of its   *)
(* characters, so that splitting and slicing are computed.  The Base64 of  *)
(* an HMAC-SHA256 is one symbol that names the secret and the message: the *)
(* MAC is taken to be free of collisions, and Base64 has no '.' or ' '.    *)
(***************************************************************************)
NotVisibleAscii == {"\\xe9"}

\* HeaderValue::to_str: fails unless every byte is visible ASCII
to_str(v) ==
    IF \E i \in 1..Len(v) : v[i] \in NotVisibleAscii THEN [ok |-> FALSE, val |-> <<>>]
    ELSE [ok |-> TRUE, val |-> v]

\* str::splitn(2, c): split at the first c, if any
splitn(str, c) ==
    IF \E i \in 1..Len(str) : str[i] = c
        THEN LET i == CHOOSE i \in 1..Len(str) :
                          str[i] = c /\ \A j \in 1..(i - 1) : str[j] # c
             IN  <<SubSeq(str, 1, i - 1), SubSeq(str, i + 1, Len(str))>>
    ELSE <<str>>

\* str::rsplitn(2, c): split at the last c, if any; the tail comes first
rsplitn(str, c) ==
    IF \E i \in 1..Len(str) : str[i] = c
        THEN LET i == CHOOSE i \in 1..Len(str) :
                          str[i] = c /\ \A j \in (i + 1)..Len(str) : str[j] # c
             IN  <<SubSeq(str, i + 1, Len(str)), SubSeq(str, 1, i - 1)>>
    ELSE <<str>>

starts_with(str, prefix) ==
    Len(str) >= Len(prefix) /\ SubSeq(str, 1, Len(prefix)) = prefix

\* STANDARD_NO_PAD.encode(HmacSha256(secret).update(message).finalize())
HmacSha256(secret, message) ==
    <<"<hmac " \o JoinStrings(secret, "") \o " " \o JoinStrings(message, "") \o ">">>

\* (mutant) the signature is not compared
hmac_verify_unchecked(env, token) ==
    IF ~env.some THEN None
    ELSE LET parts == rsplitn(token, ".")
         IN  IF Len(parts) = 2 THEN Some(parts[2]) ELSE None

\* authorization.rs 20-37; env is std::env::var("HTTP_COOKIE_SECRET").ok()
hmac_verify(env, token) ==
    IF ~env.some THEN None
    ELSE LET parts == rsplitn(token, ".")
         IN  IF Len(parts) = 2
                 THEN LET signature == parts[1]
                          owner_id == parts[2]
                          fin == HmacSha256(env.val, owner_id)
                      IN  IF fin = signature THEN Some(owner_id) ELSE None
             ELSE None

BearerFields(owner_id, raw_value) ==
    [kind |-> "Bearer", owner_id |-> owner_id, raw_value |-> raw_value]
Authorization_Empty == [kind |-> "Empty", owner_id |-> <<>>, raw_value |-> <<>>]

Extracted(auth) == [ok |-> TRUE, auth |-> auth]
InvalidAuthorizationHeader == [ok |-> FALSE, auth |-> Authorization_Empty]

Bearer_ == <<"B", "e", "a", "r", "e", "r">>

\* authorization.rs 45-81: Authorization::from_request
Authorization_from_request(header, env) ==
    IF header.some
        THEN LET value == to_str(header.val)
             IN  IF ~value.ok THEN InvalidAuthorizationHeader
                 ELSE LET parts == splitn(value.val, " ")
                      IN  IF /\ Len(parts) = 2
                             /\ parts[1] = Bearer_
                             /\ starts_with(parts[2], <<"s", ":">>)
                              THEN LET token == parts[2]
                                       owner_id == hmac_verify(env,
                                                       SubSeq(token, 3, Len(token)))
                                   IN  IF owner_id.some
                                           THEN Extracted(BearerFields(owner_id.val,
                                                                       token))
                                       ELSE Extracted(Authorization_Empty)
                          ELSE Extracted(Authorization_Empty)
    ELSE Extracted(Authorization_Empty)

(***************************************************************************)
(* Authorization::from_request on its own.  A request either has no        *)
(* Authorization header or one made of a scheme alone ("bare") or a scheme *)
(* and a token: owner "." signature behind "s:" ("legacy") or not          *)
(* ("direct"), or "s:" owner with no signature ("unsigned"); the signature *)
(* is made with a key that is or is not the secret of the process; a byte  *)
(* that is not visible ASCII may follow.                                   *)
(***************************************************************************)
AuthOwners == {<<"o">>, <<"o", ".", "p">>}
AuthSecrets == {<<"k">>, <<"j">>}
AuthSchemes == {Bearer_, <<"B", "a", "s", "i", "c">>, <<"b", "e", "a", "r", "e", "r">>}
AuthForms == {"legacy", "direct", "unsigned", "bare"}

Signed(owner, key) == owner \o <<".">> \o HmacSha256(key, owner)

NoHeader ==
    [present |-> FALSE, scheme |-> <<>>, form |-> "bare", owner |-> <<>>,
     key |-> <<>>, ascii |-> TRUE]

AuthRequests ==
    [present : {TRUE}, scheme : AuthSchemes, form : AuthForms,
     owner : AuthOwners, key : AuthSecrets, ascii : BOOLEAN] \cup {NoHeader}

TokenOf(made) ==
    CASE made.form = "legacy" -> <<"s", ":">> \o Signed(made.owner, made.key)
      [] made.form = "direct" -> Signed(made.owner, made.key)
      [] made.form = "unsigned" -> <<"s", ":">> \o made.owner
      [] made.form = "bare" -> <<>>

\* req.headers().get("Authorization")
HeaderOf(made) ==
    IF ~made.present THEN None
    ELSE Some((IF made.form = "bare" THEN made.scheme
               ELSE made.scheme \o <<" ">> \o TokenOf(made))
                  \o (IF made.ascii THEN <<>> ELSE <<"\\xe9">>))

AuthInit ==
    /\ Start
    /\ \E made \in AuthRequests, env \in {None} \cup {Some(k) : k \in AuthSecrets} :
          probe = [op |-> "auth", made |-> made, header |-> HeaderOf(made),
                   env |-> env, done |-> FALSE,
                   extracted |-> Extracted(Authorization_Empty)]

\* the extractor runs on the request
from_request ==
    /\ probe.op = "auth"
    /\ ~probe.done
    /\ probe' = [probe EXCEPT !.done = TRUE,
                              !.extracted =
                                  Authorization_from_request(probe.header, probe.env)]
    /\ UNCHANGED <<cache, cache_lock, now, ticks, heap, pc, cryptogram, step_idx,
                   translator_state, locals, final_result, result, inflight,
                   trace, began_after, posted, last>>

AuthNext == from_request

AuthSpec == AuthInit /\ [][AuthNext]_vars

\* the token of the request carries a signature made with the process secret
WellSigned ==
    /\ probe.made.form \in {"legacy", "direct"}
    /\ probe.env = Some(probe.made.key)

\* of the request as made: a Bearer header with a well signed token
BearerRequest ==
    /\ probe.made.present
    /\ probe.made.scheme = Bearer_
    /\ probe.made.ascii
    /\ WellSigned

\* Bearer(BearerFields) only for a well signed Bearer token, with its owner
\* and the token as sent
BearerOnlyWhenSigned ==
    (probe.done /\ probe.extracted.auth.kind = "Bearer") =>
        /\ BearerRequest
        /\ probe.extracted.auth.owner_id = probe.made.owner
        /\ probe.extracted.auth.raw_value = TokenOf(probe.made)

\* no header, a scheme other than Bearer, no secret, or a signature that is
\* missing or made with another key
Unauthenticated ==
    \/ ~probe.made.present
    \/ probe.made.scheme # Bearer_
    \/ ~probe.env.some
    \/ ~WellSigned

\* C16 as stated: every such request is extracted as Empty
C16_BearerOrEmpty ==
    /\ BearerOnlyWhenSigned
    /\ (probe.done /\ Unauthenticated) =>
           probe.extracted = Extracted(Authorization_Empty)

(***************************************************************************)
(* C16 (amended). The extraction yields Bearer(BearerFields{owner_id,      *)
(* raw_value}) only for a header 'Bearer <token>' whose signature, the     *)
(* part after the last '.', is the unpadded Base64 HMAC-SHA256 of the part *)
(* before it under HTTP_COOKIE_SECRET.  A wrong signature, a missing       *)
(* secret, a missing header or a header of another scheme yields Empty,    *)
(* provided the header value is visible ASCII; a header value that is not  *)
(* fails the extraction with InvalidAuthorizationHeader.                   *)
(***************************************************************************)
C16_BearerOnlyWhenVerified ==
    /\ BearerOnlyWhenSigned
    /\ (probe.done /\ Unauthenticated) =>
           probe.extracted =
               IF probe.made.present /\ ~probe.made.ascii
                   THEN InvalidAuthorizationHeader
               ELSE Extracted(Authorization_Empty)
    /\ (probe.done /\ probe.made.present /\ ~probe.made.ascii) =>
           probe.extracted = InvalidAuthorizationHeader

\* a legacy token whose owner id holds a '.' was verified: the signature is
\* what follows the last '.'
C16_Witness ==
    /\ probe.done
    /\ probe.extracted.auth.kind = "Bearer"
    /\ probe.extracted.auth.owner_id = <<"o", ".", "p">>
    /\ probe.extracted.auth.raw_value = <<"s", ":">> \o Signed(<<"o", ".", "p">>, <<"k">>)

\* C17 as stated: a well signed Bearer token, with or without the "s:"
\* prefix, yields BearerFields with its owner id
C17_BothForms ==
    (probe.done /\ BearerRequest) =>
        /\ probe.extracted.auth.kind = "Bearer"
        /\ probe.extracted.auth.owner_id = probe.made.owner

(***************************************************************************)
(* translate::step on its own: one program applied to one input from an    *)
(* empty scratchpad, with or without an event client.  EventClient::emit   *)
(* spawns a task per event; each task later succeeds or fails, and only    *)
(* logs the failure.                                                       *)
(***************************************************************************)
Programs ==
    { E1, Map(E1, At("a")), Map(At("a"), E1), Map(E1, E2), ArrayOf(E1),
      ObjectOf(<< <<"a", E1>> >>), Splat(<<E1, At("a")>>), Default(E1),
      ArrayOf(At("a")), ArrayOf(Identity), ArrayOf(ArrayOf(At("a"))),
      ArrayOf(Set("x")), ArrayOf(Map(E1, At("a"))), At("a"), Identity,
      ArrayOf(Map(E1, Map(Set("x"), At("a")))), Splat(<<Set("x"), Get("x")>>),
      Get("x"), Flatten, Length, Join("ab") }

TranslateInputs ==
    { PX, Null, String("b"), Array(<<>>), Array(<<PX>>),
      Array(<<PX, String("b"), PX>>),
      Array(<<PX, Obj1("a", String("y"))>>),
      Array(<<Array(<<PX>>), Array(<<PX, Null>>)>>),
      Array(<<String("b"), Null>>) }

TranslateInit ==
    /\ Start
    /\ \E ctx \in {NoopCtx, Ctx}, prog \in Programs, given \in TranslateInputs :
          probe = [op |-> "step", ctx |-> ctx, prog |-> prog, given |-> given,
                   done |-> FALSE, r |-> StepOk(Null, World(EmptyMap)),
                   sends |-> <<>>,
                   again |-> FALSE, r2 |-> StepOk(Null, World(EmptyMap))]

\* events/mod.rs 69-86: one spawned send per event handed to the client
Spawned(ops) ==
    LET emits == SelectSeq(ops, LAMBDA o : o.ev = "emit")
    IN  [i \in 1..Len(emits) |->
            [topic |-> emits[i].name, payload |-> emits[i].v.val,
             status |-> "spawned"]]

\* step(&ctx, &prog, &given, make_state())
Translate ==
    /\ probe.op = "step"
    /\ ~probe.done
    /\ LET r == step(probe.ctx, probe.prog, probe.given, World(EmptyMap))
       IN  probe' = [probe EXCEPT !.done = TRUE, !.r = r,
                                  !.sends = Spawned(r.w.ops)]
    /\ UNCHANGED <<cache, cache_lock, now, ticks, heap, pc, cryptogram, step_idx,
                   translator_state, locals, final_result, result, inflight,
                   trace, began_after, posted, last>>

\* the same program on the same input once more, from a new make_state()
TranslateAgain ==
    /\ probe.op = "step"
    /\ probe.done
    /\ ~probe.again
    /\ LET r == step(probe.ctx, probe.prog, probe.given, World(EmptyMap))
       IN  probe' = [probe EXCEPT !.again = TRUE, !.r2 = r,
                                  !.sends = @ \o Spawned(r.w.ops)]
    /\ UNCHANGED <<cache, cache_lock, now, ticks, heap, pc, cryptogram, step_idx,
                   translator_state, locals, final_result, result, inflight,
                   trace, began_after, posted, last>>

\* (mutant) a failed send takes the value out of the result
Resolve_nulls(p, i, outcome) ==
    IF outcome = "failed"
        THEN [p EXCEPT !.sends[i].status = outcome, !.r.value = Null]
    ELSE [p EXCEPT !.sends[i].status = outcome]

\* (mutant) a failed send turns the result of the transform into an error
Resolve_propagate(p, i, outcome) ==
    IF outcome = "failed"
        THEN [p EXCEPT !.sends[i].status = outcome,
                       !.r = StepError(<<"SQS error">>, None, p.r.w)]
    ELSE [p EXCEPT !.sends[i].status = outcome]

\* events/mod.rs 80-85: the response of the send is matched and dropped
Resolve(p, i, outcome) == [p EXCEPT !.sends[i].status = outcome]

\* a spawned send completes
SendDone ==
    /\ probe.op = "step"
    /\ \E i \in 1..Len(probe.sends), outcome \in {"sent", "failed"} :
          /\ probe.sends[i].status = "spawned"
          /\ probe' = Resolve(probe, i, outcome)
    /\ UNCHANGED <<cache, cache_lock, now, ticks, heap, pc, cryptogram, step_idx,
                   translator_state, locals, final_result, result, inflight,
                   trace, began_after, posted, last>>

TranslateNext == Translate \/ TranslateAgain \/ SendDone

TranslateSpec == TranslateInit /\ [][TranslateNext]_vars

\* the program with every EmitEvent replaced by Identity
RECURSIVE Erase(_)
Erase(prog) ==
    CASE prog.op = "EmitEvent" -> Identity
      [] prog.op = "Array" -> ArrayOf(Erase(prog.next))
      [] prog.op = "Object" ->
            ObjectOf([i \in 1..Len(prog.pairs) |->
                         <<prog.pairs[i][1], Erase(prog.pairs[i][2])>>])
      [] prog.op = "Splat" -> Splat([i \in 1..Len(prog.each) |-> Erase(prog.each[i])])
      [] prog.op = "Map" -> Map(Erase(prog.first), Erase(prog.second))
      [] prog.op = "Default" -> Default(Erase(prog.prog))
      [] OTHER -> prog

(***************************************************************************)
(* C18. EmitEvent returns its input, with an event client or without: a    *)
(* transform returns the value or the error it returns with every          *)
(* EmitEvent replaced by Identity, and leaves the same scratchpad.  That   *)
(* result stays what it is while the spawned sends succeed or fail.        *)
(***************************************************************************)
C18_EmitEventPassthrough ==
    probe.done =>
        LET ref == step(NoopCtx, Erase(probe.prog), probe.given, World(EmptyMap))
        IN  /\ probe.r.st = ref.st
            /\ probe.r.value = ref.value
            /\ probe.r.history = ref.history
            /\ probe.r.choices = ref.choices
            /\ probe.r.w.sp = ref.w.sp
            /\ probe.prog.op = "EmitEvent" =>
                   /\ probe.r.st = "ok"
                   /\ probe.r.value = probe.given
                   /\ Len(probe.sends) =
                          IF ~probe.ctx.client THEN 0
                          ELSE IF probe.again THEN 2 ELSE 1

\* the send of an event failed after the transform that emitted it had
\* returned a value
C18_Witness ==
    /\ probe.done
    /\ probe.ctx.client
    /\ probe.prog = Map(E1, At("a"))
    /\ probe.r.st = "ok"
    /\ \E i \in 1..Len(probe.sends) : probe.sends[i].status = "failed"

\* Array(sub) on an array: what sub gives on element i, taken on its own
Each(i) == step(probe.ctx, probe.prog.next, probe.given.a[i], World(EmptyMap))

(***************************************************************************)
(* C20. Array(sub) on an array applies sub to the elements in index order  *)
(* and returns the array of the results; when sub fails on element i (the  *)
(* first to fail, counted from 0) with history h, Array fails with history *)
(* "[i]" followed by h, and no later element is touched.  On a value that  *)
(* is not an array it fails with a StepError.                              *)
(***************************************************************************)
C20_ArrayStep ==
    (probe.done /\ probe.prog.op = "Array") =>
        IF probe.given.t # "arr" THEN probe.r.st = "err"
        ELSE LET n == Len(probe.given.a)
                 failing == {i \in 1..n : Each(i).st # "ok"}
             IN  IF failing = {}
                     THEN /\ probe.r.st = "ok"
                          /\ probe.r.value.t = "arr"
                          /\ Len(probe.r.value.a) = n
                          /\ \A i \in 1..n : probe.r.value.a[i] = Each(i).value
                          /\ probe.r.w.ops = Concat([i \in 1..n |-> Each(i).w.ops])
                 ELSE LET f == CHOOSE i \in failing : \A j \in failing : i <= j
                      IN  /\ probe.r.st = "err"
                          /\ probe.r.history =
                                 <<"[" \o ToString(f - 1) \o "]">> \o Each(f).history
                          /\ probe.r.choices = Each(f).choices
                          /\ probe.r.w.ops = Concat([i \in 1..f |-> Each(i).w.ops])

\* a nested Array failed on the second element of the second element
C20_Witness ==
    /\ probe.done
    /\ probe.prog = ArrayOf(ArrayOf(At("a")))
    /\ probe.r.st = "err"
    /\ probe.r.history = <<"[1]", "[1]", "a">>

\* the program is made of EmitEvent and Map alone: it cannot fail
RECURSIVE EmitOnly(_)
EmitOnly(prog) ==
    CASE prog.op = "EmitEvent" -> TRUE
      [] prog.op = "Map" -> EmitOnly(prog.first) /\ EmitOnly(prog.second)
      [] OTHER -> FALSE

\* the topics of its EmitEvents, in the order of evaluation
RECURSIVE EmitTopics(_)
EmitTopics(prog) ==
    CASE prog.op = "EmitEvent" -> <<prog.topic>>
      [] prog.op = "Map" -> EmitTopics(prog.first) \o EmitTopics(prog.second)
      [] OTHER -> <<>>

\* the transform of step i that the event at position p of e's record starts
TransformAt(e, p) ==
    LET s == Steps(e)[trace[e][p].step + 1]
    IN  IF trace[e][p].ev = "preflight" THEN s.preflight ELSE s.postflight

(***************************************************************************)
(* C19. Within one evaluation the events are handed to the event client in *)
(* step order: every event of step i before every event of a step j > i;   *)
(* within a step the preflight's come before the postflight's, and those   *)
(* of one transform come in its order of evaluation, each carrying the     *)
(* value that went through it.                                             *)
(***************************************************************************)
C19_EmitOrder ==
    \A e \in Evals :
        /\ \A p \in Events(e, "emit"), q \in Events(e, "emit") :
              p < q => trace[e][p].step <= trace[e][q].step
        /\ \A p \in Events(e, "preflight") \cup Events(e, "postflight") :
              LET prog == TransformAt(e, p)
              IN  (prog.some /\ EmitOnly(prog.val)) =>
                      LET topics == EmitTopics(prog.val)
                      IN  /\ p + Len(topics) <= Len(trace[e])
                          /\ \A k \in 1..Len(topics) :
                                /\ trace[e][p + k].ev = "emit"
                                /\ trace[e][p + k].name = topics[k]
                                /\ trace[e][p + k].step = trace[e][p].step
                                /\ trace[e][p + k].v = trace[e][p].v
        /\ \A i \in 0..Len(Steps(e)) :
              \A p \in EventsAt(e, "preflight", i), q \in EventsAt(e, "postflight", i) :
                  p < q

\* the events of a two-step evaluation reached the client as t1, t2, t1 of
\* the first step, around its backend call, and then t2 of the second
C19_Witness ==
    \E e \in Evals :
        LET emits == SelectSeq(trace[e], LAMBDA x : x.ev = "emit")
        IN  /\ Len(emits) = 4
            /\ [k \in 1..4 |-> emits[k].name] = <<"t1", "t2", "t1", "t2">>
            /\ [k \in 1..4 |-> emits[k].step] = <<0, 0, 0, 1>>
            /\ EventsAt(e, "response", 0) # {}

(***************************************************************************)
(* translate::step on its own, from any scratchpad: a program put together *)
(* from up to three expressions is applied to one input.                   *)
(***************************************************************************)
StepExprs ==
    { At("a"), At("b"), Set("x"), Get("x"), Get("y"), Const(String("k")),
      Identity, Flatten }

StepValues ==
    { Null, String("v"), Obj1("a", Obj1("b", Null)),
      Obj2("b", Number(1), "x", Null), Array(<<Array(<<Null>>)>>),
      Array(<<Obj1("a", Null), String("v"), Obj1("a", String("v"))>>) }

Scratchpads ==
    { EmptyMap, [n \in {"x"} |-> Obj1("a", Null)],
      [n \in {"x", "y"} |-> IF n = "x" THEN String("old") ELSE Number(2)] }

\* the programs the three expressions are put together into
Form(form, a, b, c) ==
    CASE form = "one" -> a
      [] form = "object" -> ObjectOf(<< <<"p", a>>, <<"q", b>>, <<"p", c>> >>)
      [] form = "splat" -> Splat(<<a, b>>)
      [] form = "map" -> Map(a, b)
      [] form = "left" -> Map(Map(a, b), c)
      [] form = "right" -> Map(a, Map(b, c))
      [] form = "array" -> ArrayOf(a)
      [] form = "each" -> ArrayOf(Map(a, b))

Forms == {"one", "object", "splat", "map", "left", "right", "array", "each"}

StepInit ==
    /\ Start
    /\ \E a \in StepExprs, b \in StepExprs, c \in StepExprs,
          given \in StepValues, sp \in Scratchpads :
          probe = [op |-> "apply", a |-> a, b |-> b, c |-> c, given |-> given,
                   sp |-> sp, done |-> FALSE, form |-> "none",
                   prog |-> Identity, r |-> StepOk(Null, World(sp))]

\* step(&ctx, &prog, &given, state), the state holding the scratchpad sp
Apply ==
    /\ probe.op = "apply"
    /\ ~probe.done
    /\ \E form \in Forms :
          LET prog == Form(form, probe.a, probe.b, probe.c)
          IN  probe' = [probe EXCEPT
                           !.done = TRUE, !.form = form, !.prog = prog,
                           !.r = step(NoopCtx, prog, probe.given, World(probe.sp))]
    /\ UNCHANGED <<cache, cache_lock, now, ticks, heap, pc, cryptogram, step_idx,
                   translator_state, locals, final_result, result, inflight,
                   trace, began_after, posted, last>>

StepNext == Apply

StepSpec == StepInit /\ [][StepNext]_vars

\* the first pair of an Object whose expression does not return a value,
\* the pairs taken in declared order against the same input
RECURSIVE FirstFailure(_, _, _, _)
FirstFailure(pairs, current, i, w) ==
    IF i > Len(pairs) THEN None
    ELSE LET r == step(NoopCtx, pairs[i][2], current, w)
         IN  IF r.st = "ok" THEN FirstFailure(pairs, current, i + 1, r.w)
             ELSE Some([k |-> pairs[i][1], r |-> r])

ObjectFailed ==
    /\ probe.op = "apply"
    /\ probe.done
    /\ probe.prog.op = "Object"
    /\ LET f == FirstFailure(probe.prog.pairs, probe.given, 1, World(probe.sp))
       IN  f.some /\ f.val.r.st = "err"

(***************************************************************************)
(* C21 as stated. When the expression declared for key k of an Object      *)
(* fails with history h, the Object fails with history [k] followed by h.  *)
(***************************************************************************)
C21_ObjectPrependsKey ==
    ObjectFailed =>
        LET f == FirstFailure(probe.prog.pairs, probe.given, 1, World(probe.sp)).val
        IN  /\ probe.r.st = "err"
            /\ probe.r.history = <<f.k>> \o f.r.history

(***************************************************************************)
(* C21. When the expression declared for key k of an Object fails with     *)
(* history h, the Object fails with history h and the choices of that      *)
(* failure: the key is not added, and no later pair is evaluated.          *)
(***************************************************************************)
C21_ObjectFailure ==
    ObjectFailed =>
        LET f == FirstFailure(probe.prog.pairs, probe.given, 1, World(probe.sp)).val
        IN  /\ probe.r.st = "err"
            /\ probe.r.history = f.r.history
            /\ probe.r.choices = f.r.choices
            /\ probe.r.w = f.r.w

\* the second pair of an Object failed after the first had written the
\* scratchpad
C21_Witness ==
    /\ ObjectFailed
    /\ probe.a = Set("x")
    /\ probe.b = At("a")
    /\ probe.given = Obj2("b", Number(1), "x", Null)
    /\ probe.r.history = <<"a">>
    /\ probe.r.w.sp["x"] = probe.given

(***************************************************************************)
(* C22. At(key) returns the value of the field key of an object that has   *)
(* it; on every other input it fails with history [key], the choices being *)
(* the keys of the input when it is an object and absent otherwise.        *)
(***************************************************************************)
C22_At ==
    (probe.op = "apply" /\ probe.done /\ probe.prog.op = "At") =>
        LET key == probe.prog.key
            v == probe.given
        IN  IF v.t = "obj" /\ key \in DOMAIN v.o
                THEN /\ probe.r.st = "ok"
                     /\ probe.r.value = v.o[key]
            ELSE /\ probe.r.st = "err"
                 /\ probe.r.history = <<key>>
                 /\ IF v.t = "obj"
                        THEN /\ probe.r.choices.some
                             /\ probe.r.choices.val.t = "arr"
                             /\ LET cs == probe.r.choices.val.a
                                IN  /\ Len(cs) = Cardinality(DOMAIN v.o)
                                    /\ \A i \in 1..Len(cs) : cs[i].t = "str"
                                    /\ {cs[i].s : i \in 1..Len(cs)} = DOMAIN v.o
                    ELSE probe.r.choices = None

\* At failed on an object that has other keys
C22_Witness ==
    /\ probe.op = "apply"
    /\ probe.done
    /\ probe.prog = At("a")
    /\ probe.given = Obj2("b", Number(1), "x", Null)
    /\ probe.r.st = "err"
    /\ probe.r.choices = Some(Array(<<String("b"), String("x")>>))

\* Map(a, Const(k)) was applied
Absorbing ==
    /\ probe.op = "apply"
    /\ probe.done
    /\ probe.form = "map"
    /\ probe.b.op = "Const"

(***************************************************************************)
(* C23 as stated. Map(a, Const(k)) yields k for every expression a, every  *)
(* input and every scratchpad.                                             *)
(***************************************************************************)
C23_ConstAbsorbsAll ==
    Absorbing => (probe.r.st = "ok" /\ probe.r.value = probe.b.value)

(***************************************************************************)
(* C23. When a returns a value on the input, Map(a, Const(k)) yields k     *)
(* and leaves the scratchpad as a left it; when a fails or panics, so does *)
(* Map(a, Const(k)), in the same way.                                      *)
(***************************************************************************)
C23_ConstAbsorption ==
    Absorbing =>
        LET ra == step(NoopCtx, probe.a, probe.given, World(probe.sp))
        IN  IF ra.st = "ok"
                THEN /\ probe.r.st = "ok"
                     /\ probe.r.value = probe.b.value
                     /\ probe.r.w = ra.w
            ELSE probe.r = ra

\* the first part stored its input and the constant was returned
C23_Witness ==
    /\ Absorbing
    /\ probe.a = Set("x")
    /\ probe.given = String("v")
    /\ probe.sp # EmptyMap
    /\ probe.r.st = "ok"
    /\ probe.r.value = String("k")
    /\ probe.r.w.sp["x"] = String("v")

\* Map(Map(a, b), c) or Map(a, Map(b, c)) was applied
Associated ==
    /\ probe.op = "apply"
    /\ probe.done
    /\ probe.form \in {"left", "right"}

\* the same three expressions put together the other way
OtherWay ==
    Form(IF probe.form = "left" THEN "right" ELSE "left",
         probe.a, probe.b, probe.c)

(***************************************************************************)
(* C24. Map(Map(a, b), c) and Map(a, Map(b, c)) give, on the same input    *)
(* and from the same scratchpad, the same value or the same error, and     *)
(* leave the same scratchpad.                                              *)
(***************************************************************************)
C24_MapAssociative ==
    Associated =>
        LET other == step(NoopCtx, OtherWay, probe.given, World(probe.sp))
        IN  /\ probe.r.st = other.st
            /\ probe.r.value = other.value
            /\ probe.r.history = other.history
            /\ probe.r.choices = other.choices
            /\ probe.r.w = other.w

\* the third part failed after the first had written the scratchpad
C24_Witness ==
    /\ Associated
    /\ probe.form = "left"
    /\ probe.a = Set("x")
    /\ probe.b = At("a")
    /\ probe.c = At("a")
    /\ probe.given = Obj1("a", Obj1("b", Null))
    /\ probe.r.st = "err"
    /\ probe.r.history = <<"a">>
    /\ probe.r.choices = Some(Array(<<String("b")>>))
    /\ probe.r.w.sp["x"] = probe.given

\* Splat[Set("x"), Get("x")] was applied
RoundTrip ==
    /\ probe.op = "apply"
    /\ probe.done
    /\ probe.form = "splat"
    /\ probe.a = Set("x")
    /\ probe.b = Get("x")

(***************************************************************************)
(* C25. Splat[Set("x"), Get("x")] on v returns v and leaves a scratchpad   *)
(* that maps x to v and every other name to what it mapped to before.      *)
(***************************************************************************)
C25_SetGetRoundTrip ==
    RoundTrip =>
        /\ probe.r.st = "ok"
        /\ probe.r.value = probe.given
        /\ DOMAIN probe.r.w.sp = (DOMAIN probe.sp) \cup {"x"}
        /\ probe.r.w.sp["x"] = probe.given
        /\ \A n \in (DOMAIN probe.sp) \ {"x"} : probe.r.w.sp[n] = probe.sp[n]

\* x held another value before, and y is still there
C25_Witness ==
    /\ RoundTrip
    /\ probe.given = Obj2("b", Number(1), "x", Null)
    /\ DOMAIN probe.sp = {"x", "y"}
    /\ probe.sp["x"] = String("old")
    /\ probe.r.w.sp["y"] = Number(2)
    /\ probe.r.value = probe.given

(***************************************************************************)
(* translate::parse.  A source text is a sequence of characters; a parser  *)
(* takes a text and answers the rest of the text with what it recognised,  *)
(* or an error (nom's IResult; the parsers used are the `complete` ones    *)
(* and none of them raises a Failure).                                     *)
(***************************************************************************)
POk(rest, out) == [ok |-> TRUE, rest |-> rest, out |-> out]
PErr == [ok |-> FALSE]

From(input, i) == SubSeq(input, i, Len(input))

Alpha ==
    { "a", "b", "c", "d", "e", "f", "g", "h", "i", "j", "k", "l", "m", "n",
      "o", "p", "q", "r", "s", "t", "u", "v", "w", "x", "y", "z", "A", "Z" }
Digit == { "0", "1", "9" }

\* the longest prefix of the text whose characters are all in the class
Span(input, class) ==
    LET stops == {i \in 1..Len(input) : input[i] \notin class}
    IN  IF stops = {} THEN Len(input)
        ELSE (CHOOSE i \in stops : \A j \in stops : i <= j) - 1

tag(t, input) ==
    IF Len(input) >= Len(t) /\ SubSeq(input, 1, Len(t)) = t
        THEN POk(From(input, Len(t) + 1), t)
    ELSE PErr

space0(input) == From(input, Span(input, {" ", "\t"}) + 1)

\* delimited(space0, char(c), space0)
spaced(c, input) ==
    LET r == tag(<<c>>, space0(input))
    IN  IF r.ok THEN POk(space0(r.rest), c) ELSE PErr

\* [A-Za-z_][A-Za-z0-9_]*, recognised as one string
identifier(input) ==
    IF Len(input) > 0 /\ input[1] \in Alpha \cup {"_"}
        THEN LET n == Span(input, Alpha \cup Digit \cup {"_"})
             IN  POk(From(input, n + 1), JoinStrings(SubSeq(input, 1, n), ""))
    ELSE PErr

\* the end of the body of a quoted string: plain characters and the two
\* escapes \" and \\
RECURSIVE escaped(_, _)
escaped(input, i) ==
    IF i > Len(input) THEN i
    ELSE IF input[i] = "\\"
        THEN IF i < Len(input) /\ input[i + 1] \in {"\"", "\\"}
                 THEN escaped(input, i + 2)
             ELSE 0
    ELSE IF input[i] = "\"" THEN i
    ELSE escaped(input, i + 1)

\* a body of at least one character between two double quotes
quoted(input) ==
    IF Len(input) > 0 /\ input[1] = "\""
        THEN LET end == escaped(input, 2)
             IN  IF end > 2 /\ end <= Len(input)
                     THEN POk(From(input, end + 1),
                              JoinStrings(SubSeq(input, 2, end - 1), ""))
                 ELSE PErr
    ELSE PErr

\* `?` and or_else: go on with what a parser recognised, or fall back
AndThen(r, F(_)) == IF r.ok THEN F(r) ELSE PErr
OrElse(r, other) == IF r.ok THEN r ELSE other

RECURSIVE parse_at(_)
RECURSIVE parse_default(_)
RECURSIVE parse_map(_)
RECURSIVE parse_entry(_)
RECURSIVE parse_object(_)
RECURSIVE parse_thunk(_)
RECURSIVE parse_language(_)
RECURSIVE list_thunks(_, _)
RECURSIVE list_entries(_, _)

\* (mutant) what follows the pipe is read as a whole comma-separated list
parse_at_loose(input) ==
    AndThen(tag(<<".">>, input), LAMBDA dot :
    AndThen(identifier(dot.rest), LAMBDA key :
    OrElse(AndThen(spaced("|", key.rest), LAMBDA bar :
           AndThen(parse_language(bar.rest), LAMBDA proj :
           POk(proj.rest, Map(At(key.out), proj.out)))),
           POk(key.rest, At(key.out)))))

\* .key, optionally followed by a pipe and one thunk
parse_at(input) ==
    AndThen(tag(<<".">>, input), LAMBDA dot :
    AndThen(identifier(dot.rest), LAMBDA key :
    OrElse(AndThen(spaced("|", key.rest), LAMBDA bar :
           AndThen(parse_thunk(bar.rest), LAMBDA proj :
           POk(proj.rest, Map(At(key.out), proj.out)))),
           POk(key.rest, At(key.out)))))

parse_default(input) ==
    AndThen(tag(<<"d", "e", "f", "a", "u", "l", "t", "(">>, input), LAMBDA leader :
    AndThen(parse_language(leader.rest), LAMBDA prog :
    AndThen(tag(<<")">>, prog.rest), LAMBDA follower :
    POk(follower.rest, Default(prog.out)))))

parse_flatten(input) ==
    AndThen(tag(<<"f", "l", "a", "t", "t", "e", "n">>, input), LAMBDA leader :
    POk(leader.rest, Flatten))

parse_identity(input) ==
    AndThen(tag(<<".">>, input), LAMBDA leader : POk(leader.rest, Identity))

\* (mutant) the thunk between the parentheses is returned as it is
parse_map_bare(input) ==
    AndThen(tag(<<"m", "a", "p", "(">>, input), LAMBDA open :
    AndThen(parse_thunk(space0(open.rest)), LAMBDA inner :
    AndThen(tag(<<")">>, space0(inner.rest)), LAMBDA close :
    POk(close.rest, inner.out))))

parse_map(input) ==
    AndThen(tag(<<"m", "a", "p", "(">>, input), LAMBDA open :
    AndThen(parse_thunk(space0(open.rest)), LAMBDA inner :
    AndThen(tag(<<")">>, space0(inner.rest)), LAMBDA close :
    POk(close.rest, ArrayOf(inner.out)))))

\* "key" : thunk
parse_entry(input) ==
    AndThen(quoted(input), LAMBDA key :
    AndThen(spaced(":", key.rest), LAMBDA colon :
    AndThen(parse_thunk(colon.rest), LAMBDA value :
    POk(value.rest, <<key.out, value.out>>))))

\* separated_list0 after its first element: a separator and an element at a
\* time, stopping in front of the first separator that is not followed by one
list_entries(input, acc) ==
    OrElse(AndThen(spaced(",", input), LAMBDA comma :
           AndThen(parse_entry(comma.rest), LAMBDA next :
           list_entries(next.rest, Append(acc, next.out)))),
           POk(input, acc))

parse_object(input) ==
    AndThen(spaced("{", input), LAMBDA open :
    AndThen(OrElse(AndThen(parse_entry(open.rest), LAMBDA first :
                   list_entries(first.rest, <<first.out>>)),
                   POk(open.rest, <<>>)), LAMBDA entries :
    AndThen(spaced("}", entries.rest), LAMBDA close :
    POk(close.rest, ObjectOf(entries.out)))))

\* get("name") and set("name")
parse_call(name, input) ==
    AndThen(tag(name \o <<"(", "\"">>, space0(input)), LAMBDA leader :
    AndThen(identifier(space0(leader.rest)), LAMBDA key :
    AndThen(tag(<<"\"", ")">>, key.rest), LAMBDA follower :
    POk(follower.rest, key.out))))

parse_get(input) ==
    AndThen(parse_call(<<"g", "e", "t">>, input), LAMBDA r : POk(r.rest, Get(r.out)))

parse_set(input) ==
    AndThen(parse_call(<<"s", "e", "t">>, input), LAMBDA r : POk(r.rest, Set(r.out)))

\* the first of the eight parsers that accepts the text
parse_thunk(input) ==
    OrElse(parse_at(input),
    OrElse(parse_map(input),
    OrElse(parse_object(input),
    OrElse(parse_get(input),
    OrElse(parse_set(input),
    OrElse(parse_default(input),
    OrElse(parse_flatten(input),
           parse_identity(input))))))))

\* separated_list1 after its first thunk
list_thunks(input, acc) ==
    OrElse(AndThen(spaced(",", input), LAMBDA comma :
           AndThen(parse_thunk(comma.rest), LAMBDA next :
           list_thunks(next.rest, Append(acc, next.out)))),
           POk(input, acc))

\* (mutant) a single thunk is wrapped in a Splat as well
parse_language_always_splat(input) ==
    AndThen(parse_thunk(input), LAMBDA first :
    AndThen(list_thunks(first.rest, <<first.out>>), LAMBDA matched :
    POk(matched.rest, Splat(matched.out))))

parse_language(input) ==
    AndThen(parse_thunk(input), LAMBDA first :
    AndThen(list_thunks(first.rest, <<first.out>>), LAMBDA matched :
    IF Len(matched.out) = 1 THEN POk(matched.rest, matched.out[1])
    ELSE POk(matched.rest, Splat(matched.out))))

(***************************************************************************)
(* parse_language on its own: a source text put together from thunks is    *)
(* parsed.                                                                 *)
(***************************************************************************)
Foo == <<"f", "o", "o">>
Bar == <<"b", "a", "r">>

ParseKeys == { Foo, Bar, <<"a", "_", "1">> }

Dot(k) == <<".">> \o k
Pipe(k, t) == Dot(k) \o <<" ", "|", " ">> \o t
MapOf(t) == <<"m", "a", "p", "(">> \o t \o <<")">>

\* thunks that hold no other thunk
PlainThunks ==
    { Dot(k) : k \in ParseKeys } \cup
    { <<".">>,
      <<"f", "l", "a", "t", "t", "e", "n">>,
      <<"g", "e", "t", "(", "\"", "x", "\"", ")">>,
      <<"s", "e", "t", "(", "\"", "x", "\"", ")">>,
      <<"{", " ", "\"", "p", "\"", ":", " ", ".", "a", ",", " ", "\"", "q", "\"",
        " ", ":", " ", ".", " ", "}">>,
      <<"d", "e", "f", "a", "u", "l", "t", "(", ".", ",", " ", ".", "a", ")">> }

Thunks ==
    PlainThunks \cup { Pipe(k, t) : k \in {Foo, Bar}, t \in PlainThunks }
                \cup { MapOf(t) : t \in PlainThunks }

Separators == { <<",">>, <<",", " ">>, <<" ", ",", " ">> }

RECURSIVE Separated(_, _)
Separated(parts, sep) ==
    IF Len(parts) = 1 THEN parts[1]
    ELSE parts[1] \o sep \o Separated(Tail(parts), sep)

Lists ==
    { <<t>> : t \in Thunks } \cup (Thunks \X Thunks)
        \cup ({Dot(Foo), Pipe(Bar, <<".">>), MapOf(Dot(Bar))}
                 \X {<<".">>, Dot(Bar)} \X {Pipe(Foo, Dot(Bar)), MapOf(<<".">>)})

Sources ==
    { [form |-> "pipe", key |-> k, parts |-> <<t>>, text |-> Pipe(k, t)] :
          k \in ParseKeys, t \in Thunks }
    \cup { [form |-> "map", key |-> <<>>, parts |-> <<t>>, text |-> MapOf(t)] :
          t \in Thunks }
    \cup { [form |-> "list", key |-> <<>>, parts |-> l[1], text |-> Separated(l[1], l[2])] :
          l \in Lists \X Separators }

ParseInit ==
    /\ Start
    /\ \E src \in Sources :
          probe = [op |-> "parse", src |-> src, done |-> FALSE, res |-> PErr]

Parse ==
    /\ probe.op = "parse"
    /\ ~probe.done
    /\ probe' = [probe EXCEPT !.done = TRUE, !.res = parse_language(probe.src.text)]
    /\ UNCHANGED <<cache, cache_lock, now, ticks, heap, pc, cryptogram, step_idx,
                   translator_state, locals, final_result, result, inflight,
                   trace, began_after, posted, last>>

ParseNext == Parse

ParseSpec == ParseInit /\ [][ParseNext]_vars

\* the text is a thunk: parse_thunk accepts it and nothing is left over
IsThunk(t) == parse_thunk(t).ok /\ parse_thunk(t).rest = <<>>

Parsed(t) == parse_thunk(t).out

(***************************************************************************)
(* C27. '.k | t' parses to Map(At(k), parse(t)), so that pipes nest to the *)
(* right; 'map(t)' to Array(parse(t)); two or more thunks separated by     *)
(* commas to the Splat of their parses in source order, a thunk with a     *)
(* pipe being one element of it; a single thunk to its own parse.  In each *)
(* case nothing of the text is left over.                                  *)
(***************************************************************************)
C27_Parser ==
    (probe.op = "parse" /\ probe.done) =>
        LET src == probe.src
            n == Len(src.parts)
        IN  /\ \A i \in 1..n : IsThunk(src.parts[i])
            /\ probe.res.ok
            /\ probe.res.rest = <<>>
            /\ src.form = "pipe" =>
                   probe.res.out =
                       Map(At(JoinStrings(src.key, "")), Parsed(src.parts[1]))
            /\ src.form = "map" => probe.res.out = ArrayOf(Parsed(src.parts[1]))
            /\ (src.form = "list" /\ n = 1) => probe.res.out = Parsed(src.parts[1])
            /\ (src.form = "list" /\ n > 1) =>
                   probe.res.out = Splat([i \in 1..n |-> Parsed(src.parts[i])])
            /\ src.text = Pipe(Foo, Dot(Bar)) =>
                   probe.res.out = Map(At("foo"), At("bar"))
            /\ src.text = MapOf(Dot(Foo)) => probe.res.out = ArrayOf(At("foo"))
            /\ src.text = Pipe(Bar, Pipe(Foo, Dot(Bar))) =>
                   probe.res.out = Map(At("bar"), Map(At("foo"), At("bar")))

\* a list of three thunks, the first and the last with a pipe
C27_Witness ==
    /\ probe.op = "parse"
    /\ probe.done
    /\ probe.src.parts = <<Pipe(Bar, <<".">>), Dot(Bar), Pipe(Foo, Dot(Bar))>>
    /\ probe.res = POk(<<>>, Splat(<<Map(At("bar"), Identity), At("bar"),
                                     Map(At("foo"), At("bar"))>>))

(***************************************************************************)
(* Termination of do_evaluate.  An evaluation waits in three places only:  *)
(* for the cache lock (twice) and for the answer of the backend.  The      *)
(* runtime runs a task that can run, the backend answers an outstanding    *)
(* request, and tokio's Mutex hands the lock to every task that waits for  *)
(* it; so an evaluation ends when it is never stuck and every step it      *)
(* takes brings it closer to the end.                                      *)
(***************************************************************************)
\* the evaluation can take its next step
Runnable(e) ==
    \/ pc[e] \in {"loop", "get", "got", "insert"}
    \/ pc[e] \in {"lock_get", "lock_insert"} /\ cache_lock = "free"
    \/ pc[e] = "await" /\ Request(e, ES(e)) \in inflight

\* the evaluation waits for the lock, and who holds it can run and drop it
WaitsForRunnable(e) ==
    /\ pc[e] \in {"lock_get", "lock_insert"}
    /\ cache_lock \in Evals \ {e}
    /\ pc[cache_lock] \in {"get", "insert"}

NeverStuck ==
    \A e \in Evals :
        pc[e] \notin {"idle", "done"} => (Runnable(e) \/ WaitsForRunnable(e))

\* how far the evaluation is: the steps behind it, then the place within
\* the pass of the loop
Phase(at) ==
    CASE at = "loop" -> 0
      [] at = "lock_get" -> 1
      [] at = "get" -> 2
      [] at = "got" -> 3
      [] at = "await" -> 4
      [] at = "lock_insert" -> 5
      [] at = "insert" -> 6
      [] OTHER -> 0

Rank(e) ==
    IF pc[e] = "done" THEN 7 * (Len(cryptogram[e].steps) + 1)
    ELSE 7 * step_idx[e] + Phase(pc[e])

\* every step of a started evaluation brings it closer to the end
Progress ==
    \A e \in Evals :
        (pc[e] # "idle" /\ <<pc[e], step_idx[e], trace[e]>>' #
                            <<pc[e], step_idx[e], trace[e]>>) =>
            /\ Rank(e)' > Rank(e)
            /\ Rank(e)' <= 7 * (Len(cryptogram[e].steps) + 1)
            /\ Len(cryptogram[e].steps)' = Len(cryptogram[e].steps)

\* the steps of the evaluation that were begun, one entry per time
Processed(e) == SelectSeq(trace[e], LAMBDA x : x.ev = "begin")

\* no more steps are processed than the cryptogram has
WithinSteps ==
    \A e \in Evals :
        /\ step_idx[e] <= Len(cryptogram[e].steps)
        /\ Len(Processed(e)) <= Len(cryptogram[e].steps)

(***************************************************************************)
(* C28 as stated. Every evaluation that was started comes to its end after *)
(* at most len(steps) steps, and ends with a final value or an error.      *)
(***************************************************************************)
C28_AlwaysReturns ==
    /\ [](NeverStuck /\ WithinSteps)
    /\ [][Progress]_vars
    /\ [](\A e \in Evals : pc[e] = "done" => result[e].st \in {"ok", "err"})

(***************************************************************************)
(* C28. Every evaluation that was started comes to its end after at most   *)
(* len(steps) steps: it is never stuck, each of its steps brings it closer *)
(* to the end, and it ends with a final value or an error, or aborted by   *)
(* the panic of a transform of one of its steps.                           *)
(***************************************************************************)
C28_Terminates ==
    /\ [](NeverStuck /\ WithinSteps)
    /\ [][Progress]_vars
    /\ [](\A e \in Evals :
             pc[e] = "done" => result[e].st \in {"ok", "err", "panic"})

\* two evaluations ended, one with a value after a wait for the cache lock
\* and a backend request, the other aborted by a panic in its first step
C28_Witness ==
    \E e \in Evals, f \in Evals :
        /\ pc[e] = "done" /\ result[e].st = "ok"
        /\ EventsAt(e, "cache_insert", 0) # {}
        /\ pc[f] = "done" /\ result[f].st = "panic"
        /\ Len(Processed(f)) = 1
        /\ Len(cryptogram[f].steps) = 2

\* the event of step i of the evaluation that comes last before position p
LastBefore(e, ev, i, p) ==
    LET ps == {q \in EventsAt(e, ev, i) : q < p}
    IN  IF ps = {} THEN 0 ELSE CHOOSE q \in ps : \A r \in ps : r <= q

\* the write at position p of the trace comes from a backend step with a
\* memoization prefix whose lookup missed and whose request and postflight
\* succeeded; what is written is the step's new payload, under the prefix
\* followed by the hash of the outgoing payload
WriteOfMissedBackendStep(e, p) ==
    LET w == trace[e][p]
        i == w.step
        current_step == Steps(e)[i + 1]
        out == LastBefore(e, "outgoing", i, p)
        get == LastBefore(e, "cache_get", i, p)
        req == LastBefore(e, "request", i, p)
        res == LastBefore(e, "response", i, p)
        post == LastBefore(e, "postflight", i, p)
    IN  /\ current_step.memoization_prefix.some
        /\ current_step.service.some /\ current_step.method.some
        /\ out # 0 /\ get # 0 /\ req # 0 /\ res # 0
        /\ out < get /\ get < req /\ req < res
        /\ trace[e][get].v = None
        /\ trace[e][req].v = trace[e][out].v
        /\ trace[e][res].v.some
        /\ w.key = format_memo_key(current_step.memoization_prefix.val,
                                   hash_value(trace[e][out].v.val))
        /\ IF current_step.postflight.some
               THEN /\ post > res
                    /\ trace[e][post].v = trace[e][res].v
                    /\ \E r \in {step(Ctx, current_step.postflight.val,
                                      trace[e][res].v.val, World(sp)) :
                                     sp \in {EmptyMap} \cup {heap[h] : h \in DOMAIN heap}} :
                          r.st = "ok" /\ w.v = Some(r.value)
           ELSE w.v = trace[e][res].v
        /\ \E q \in EventsAt(e, "new_payload", i) :
              q = p + 1 /\ trace[e][q].v = w.v

(***************************************************************************)
(* C29. The evaluator writes the memoization cache only for a step with a  *)
(* memoization prefix whose lookup missed, whose backend request returned  *)
(* a value and whose postflight succeeded: it stores the step's new        *)
(* payload under prefix ++ hash(outgoing payload) with a TTL of 600 s.     *)
(* Every entry of the cache was written so, and an inert step writes none. *)
(***************************************************************************)
C29_CacheWrites ==
    /\ \A e \in Evals : \A p \in Events(e, "cache_insert") :
          WriteOfMissedBackendStep(e, p)
    /\ \A k \in DOMAIN cache :
          /\ cache[k].ttl = 600
          /\ \E e \in Evals : \E p \in Events(e, "cache_insert") :
                /\ trace[e][p].key = k
                /\ trace[e][p].v = Some(cache[k].value)
                /\ trace[e][p].at = cache[k].cached_at
    /\ \A e \in Evals : \A p \in Events(e, "new_payload") :
          InertStep(e, trace[e][p].step) =>
              EventsAt(e, "cache_insert", trace[e][p].step) = {}

\* a step stored what its postflight made of the response, and an inert
\* step with the same prefix and payload missed the cache and stored nothing
C29_Witness ==
    \E e \in Evals, f \in Evals :
        /\ \E p \in Events(e, "cache_insert") :
              /\ Steps(e)[trace[e][p].step + 1].postflight.some
              /\ trace[e][p].v # trace[e][LastBefore(e, "response", trace[e][p].step, p)].v
              /\ trace[e][p].key \in DOMAIN cache
        /\ pc[f] = "done"
        /\ Len(Steps(f)) = 1
        /\ InertStep(f, 0)
        /\ Steps(f)[1].memoization_prefix.some
        /\ \E q \in EventsAt(f, "cache_get", 0) : trace[f][q].v = None
        /\ Events(f, "cache_insert") = {}

\* the step the evaluation is at carries no memoization prefix
Unprefixed(e, i) ==
    /\ i < Len(Steps(e))
    /\ ~Steps(e)[i + 1].memoization_prefix.some

\* what a step makes of a value: its postflight applied to it against one
\* of the scratchpads, or the value itself when it has no postflight
Postflighted(current_step, value) ==
    IF current_step.postflight.some
        THEN LET rs == {step(Ctx, current_step.postflight.val, value, World(sp)) :
                           sp \in {EmptyMap} \cup {heap[h] : h \in DOMAIN heap}}
             IN  {r.value : r \in {x \in rs : x.st = "ok"}}
    ELSE {value}

\* a step without a prefix never holds or awaits the cache lock, looks
\* nothing up and stores nothing, and its new payload is made of its
\* outgoing payload or of the backend's response alone
NoCacheAccess ==
    \A e \in Evals :
        /\ pc[e] \in {"lock_get", "get", "got", "lock_insert", "insert"} =>
               ~Unprefixed(e, step_idx[e])
        /\ \A p \in Events(e, "cache_get") \cup Events(e, "cache_insert") :
               ~Unprefixed(e, trace[e][p].step)
        /\ \A p \in Events(e, "new_payload") :
               LET i == trace[e][p].step
                   res == LastBefore(e, "response", i, p)
                   out == LastBefore(e, "outgoing", i, p)
               IN  Unprefixed(e, i) =>
                       /\ out # 0
                       /\ trace[e][p].v.val \in
                              Postflighted(Steps(e)[i + 1],
                                           IF res # 0 THEN trace[e][res].v.val
                                           ELSE trace[e][out].v.val)

\* a transition that changes the cache is taken by an evaluation that is
\* at a step with a prefix
CacheWrittenByPrefixed ==
    cache' # cache =>
        \E e \in Evals : trace'[e] # trace[e] /\ ~Unprefixed(e, step_idx[e])

(***************************************************************************)
(* C30. A step without a memoization prefix neither reads nor writes the   *)
(* memoization cache: no step of it changes the cache, and its new payload *)
(* is made without a lookup, so it is the same whatever the cache holds.   *)
(***************************************************************************)
C30_NoPrefixNoCache == []NoCacheAccess /\ [][CacheWrittenByPrefixed]_vars

\* a step without a prefix ran to its new payload while the cache held an
\* entry for the very payload it sent
C30_Witness ==
    \E e \in Evals :
        \E p \in Events(e, "new_payload") :
            /\ Unprefixed(e, trace[e][p].step)
            /\ Steps(e)[trace[e][p].step + 1].service.some
            /\ \E q \in EventsAt(e, "outgoing", trace[e][p].step) :
                  \E k \in DOMAIN cache :
                      k = format_memo_key("u1-", hash_value(trace[e][q].v.val))

Hits(e) == {p \in Events(e, "cache_get") : trace[e][p].v.some}

\* the side effects a transform performed, as the record shows them between
\* the positions p and q
OpsBetween(e, p, q) ==
    LET evs == SelectSeq(SubSeq(trace[e], p + 1, q - 1),
                         LAMBDA x : x.ev \in {"set", "get", "emit"})
    IN  [j \in 1..Len(evs) |-> Op(evs[j].ev, evs[j].name, evs[j].v)]

\* the preflight of the step was evaluated before the lookup at position p,
\* with the side effects it has on one of the scratchpads
PreflightBefore(e, i, p) ==
    LET current_step == Steps(e)[i + 1]
        out == LastBefore(e, "outgoing", i, p)
        pre == LastBefore(e, "preflight", i, p)
    IN  /\ out # 0
        /\ IF current_step.preflight.some
               THEN /\ pre # 0 /\ pre < out
                    /\ \E r \in {step(Ctx, current_step.preflight.val,
                                      trace[e][pre].v.val, World(sp)) :
                                     sp \in {EmptyMap} \cup {heap[h] : h \in DOMAIN heap}} :
                          /\ r.st = "ok"
                          /\ Some(r.value) = trace[e][out].v
                          /\ r.w.ops = OpsBetween(e, pre, out)
                    /\ \A j \in (pre + 1)..(out - 1) :
                          trace[e][j].ev = "set" =>
                              trace[e][j].name \in DOMAIN heap[translator_state[e]]
           ELSE pre = 0

(***************************************************************************)
(* C31. On a memoization hit the new payload of the step is the cached     *)
(* value: the step looks up no service or method, issues no request and    *)
(* does not run its postflight, so nothing of the postflight is written to *)
(* the scratchpad or emitted.  Its preflight, with its writes and events,  *)
(* was evaluated before the lookup.                                        *)
(***************************************************************************)
C31_HitSkipsBackend ==
    \A e \in Evals : \A p \in Hits(e) :
        LET i == trace[e][p].step
        IN  /\ PreflightBefore(e, i, p)
            /\ EventsAt(e, "request", i) = {}
            /\ EventsAt(e, "response", i) = {}
            /\ EventsAt(e, "postflight", i) = {}
            /\ EventsAt(e, "return", i) = {}
            /\ \A q \in (p + 1)..Len(trace[e]) :
                  trace[e][q].step = i =>
                      /\ q = p + 1
                      /\ trace[e][q].ev = "new_payload"
                      /\ trace[e][q].v = trace[e][p].v
            /\ (pc[e] = "got" /\ step_idx[e] = i) \/ Len(trace[e]) > p

\* a step with a preflight and a postflight that both write the scratchpad
\* and emit an event took its payload from the cache: the name and the event
\* of the preflight are there, those of the postflight are not
C31_Witness ==
    \E e \in Evals : \E p \in Hits(e) :
        /\ pc[e] = "done"
        /\ result[e] = Ok(trace[e][p].v.val)
        /\ Steps(e)[1].service.some
        /\ Steps(e)[1].preflight = Some(Map(E1, Set("x")))
        /\ Steps(e)[1].postflight = Some(Map(E2, Map(Set("y"), At("a"))))
        /\ DOMAIN heap[translator_state[e]] = {"x"}
        /\ {trace[e][q].name : q \in Events(e, "emit")} = {"t1"}

\* the outgoing payload of step i of the evaluation, as last made before p
OutgoingBefore(e, i, p) == trace[e][LastBefore(e, "outgoing", i, p)].v

\* the value the lookup at position p returned was stored by a backend step
\* with the same prefix and the same outgoing payload
StoredForSamePayload(e, p) ==
    LET i == trace[e][p].step
    IN  \E f \in Evals : \E q \in Events(f, "cache_insert") :
            LET j == trace[f][q].step
            IN  /\ trace[f][q].key = trace[e][p].key
                /\ trace[f][q].v = trace[e][p].v
                /\ BackendStep(f, j)
                /\ Steps(f)[j + 1].memoization_prefix = Steps(e)[i + 1].memoization_prefix
                /\ OutgoingBefore(f, j, q) = OutgoingBefore(e, i, p)

(***************************************************************************)
(* C32 as stated. Whenever a step takes its new payload from the cache,    *)
(* the value was stored by a backend step with the same memoization prefix *)
(* and the same outgoing payload; two different outgoing payloads under    *)
(* one prefix never have the same memo key.                                *)
(***************************************************************************)
C32_MemoizationSound ==
    /\ \A e \in Evals : \A p \in Hits(e) : StoredForSamePayload(e, p)
    /\ \A e \in Evals, f \in Evals :
          \A p \in Events(e, "cache_get"), q \in Events(f, "cache_get") :
              LET i == trace[e][p].step
                  j == trace[f][q].step
              IN  (/\ Steps(e)[i + 1].memoization_prefix =
                          Steps(f)[j + 1].memoization_prefix
                   /\ OutgoingBefore(e, i, p) # OutgoingBefore(f, j, q)) =>
                      trace[e][p].key # trace[f][q].key

\* in this step the evaluation issues the backend request of a step that
\* carries a memoization prefix
IssuesMemoizedRequest(e) ==
    /\ Cardinality(Events(e, "request"))' > Cardinality(Events(e, "request"))
    /\ ~Unprefixed(e, step_idx[e])

\* another evaluation has asked the backend under the same key and not yet
\* stored the answer
RequestedBy(f, key) ==
    /\ pc[f] \in {"await", "lock_insert", "insert"}
    /\ locals[f].memo_key = Some(key)

(***************************************************************************)
(* C33 as stated. Among the evaluations that share the cache, also when    *)
(* they run concurrently, a memoized backend step causes at most one       *)
(* backend request per memo key while the entry is unexpired: no request   *)
(* is issued under a key for which an unexpired entry is stored or for     *)
(* which another evaluation's request is under way.                        *)
(***************************************************************************)
C33_NoDuplicateRequest ==
    [][\A e \in Evals :
          IssuesMemoizedRequest(e) =>
              LET key == locals[e].memo_key.val
              IN  /\ ~Live(cache, now, key)
                  /\ \A f \in Evals \ {e} : ~RequestedBy(f, key)]_vars

\* the lookup returns the entry of the key exactly when it is unexpired
LookupSeesEntry ==
    \A e \in Evals :
        (pc[e] = "get" /\ pc'[e] = "got") =>
            LET key == locals[e].memo_key.val
            IN  locals'[e].maybe_cache =
                    IF Live(cache, now, key) THEN Some(cache[key].value) ELSE None

\* a memoized step asks the backend only after its own lookup found nothing
RequestFollowsMiss ==
    \A e \in Evals :
        /\ IssuesMemoizedRequest(e) =>
               (pc[e] = "got" /\ ~locals[e].maybe_cache.some)
        /\ (pc[e] = "got" /\ locals[e].maybe_cache.some) =>
               /\ pc'[e] # "await"
               /\ Events(e, "request")' = Events(e, "request")

(***************************************************************************)
(* C33. A memoized backend step asks the backend only when its own lookup, *)
(* made with the cache lock held, found no unexpired entry for its memo    *)
(* key: an evaluation that looks the key up while an unexpired entry is    *)
(* stored takes the entry and issues no request.  Evaluations whose        *)
(* lookups come before the first insert each issue a request of their own. *)
(***************************************************************************)
C33_RequestOnlyAfterMiss == [][LookupSeesEntry /\ RequestFollowsMiss]_vars

\* two concurrent evaluations missed the cache for the same key, both asked
\* the backend and both stored an answer at the same time
C33_Witness ==
    \E e \in Evals, f \in Evals :
        /\ e # f
        /\ \E p \in Events(e, "cache_insert"), q \in Events(f, "cache_insert") :
              /\ trace[e][p].key = trace[f][q].key
              /\ trace[e][p].at = trace[f][q].at
              /\ Events(e, "request") # {} /\ Events(f, "request") # {}
              /\ \E g \in Events(f, "cache_get") : g < q /\ trace[f][g].at = trace[e][p].at

\* the events of the evaluation that are accesses of the cache
CacheEvents(e) == Events(e, "cache_get") \cup Events(e, "cache_insert")

\* the events of the evaluation that come from a transform or a request
WorkEvents(e) ==
    {p \in 1..Len(trace[e]) :
        trace[e][p].ev \in {"edge_preflight", "preflight", "postflight", "set",
                            "get", "emit", "request", "response"}}

\* who holds the lock is at its get or at its insert, with no request out
HeldForOneAccess ==
    \A e \in Evals :
        cache_lock = e =>
            /\ pc[e] \in {"get", "insert"}
            /\ \A r \in inflight : r.eval # e

\* who waits for the lock waits for an evaluation that needs nothing but
\* its own next step to drop it
WaitersCanProceed ==
    \A e \in Evals :
        pc[e] \in {"lock_get", "lock_insert"} =>
            \/ cache_lock = "free"
            \/ /\ cache_lock \in Evals \ {e}
               /\ pc[cache_lock] \in {"get", "insert"}
               /\ pc[cache_lock] = "get" => locals[cache_lock].memo_key.some

\* the step the holder takes is one access, after which the lock is free
DroppedAfterOne ==
    \A e \in Evals :
        (cache_lock = e /\ trace'[e] # trace[e]) =>
            /\ cache_lock' = "free"
            /\ Cardinality(CacheEvents(e)') = Cardinality(CacheEvents(e)) + 1
            /\ pc'[e] \in {"got", "loop"}

\* no transform runs and no request is issued or answered in a step taken
\* with the lock held, and the cache is accessed only with the lock held
NothingElseUnderLock ==
    \A e \in Evals :
        /\ WorkEvents(e)' # WorkEvents(e) => (cache_lock # e /\ cache_lock' # e)
        /\ CacheEvents(e)' # CacheEvents(e) => cache_lock = e
        /\ cache' # cache => cache_lock \in Evals

(***************************************************************************)
(* C34. The cache mutex is held for one get or one insert at a time: no    *)
(* evaluation holds it while a request of its own is outstanding or while  *)
(* a transform is evaluated, so an evaluation that waits for its backend   *)
(* keeps no other from the cache, and whoever waits for the lock waits for *)
(* a holder that drops it with its next step.                              *)
(***************************************************************************)
C34_LockHeldBriefly ==
    /\ [](HeldForOneAccess /\ WaitersCanProceed)
    /\ [][DroppedAfterOne /\ NothingElseUnderLock]_vars

\* one evaluation waits for the backend's answer to a memoized step while
\* the other, which waited for the lock, is at its lookup with the lock held
C34_Witness ==
    \E e \in Evals, f \in Evals :
        /\ pc[e] = "await"
        /\ locals[e].memo_key.some
        /\ Request(e, ES(e)) \in inflight
        /\ cache_lock = f
        /\ pc[f] = "get"
        /\ locals[f].memo_key = locals[e].memo_key

\* the steps of the cryptogram do_evaluate was called with: the posted one,
\* or the one of the edge route after its first step was bound to the body
Given(e) ==
    LET c == posted[e]
    IN  IF c.route = "edge" /\ Len(c.steps) # 0 /\ c.steps[1].preflight.some
            THEN Bind([cryptogram |-> JsonCryptogram(c.steps)],
                      step(Ctx, c.steps[1].preflight.val, c.body.val,
                           World(EmptyMap)).value).cryptogram.steps
        ELSE c.steps

\* everything of a step but its payload
Frame(s) ==
    [service |-> s.service, method |-> s.method, preflight |-> s.preflight,
     postflight |-> s.postflight, memoization_prefix |-> s.memoization_prefix,
     headers |-> s.headers]

(***************************************************************************)
(* C35. The cryptogram a successful do_evaluate returns has the steps of   *)
(* its input, in number and order, each with the service, method,          *)
(* preflight, postflight, memoization prefix and headers it had; the       *)
(* payload of step 0 is the one given, and the payload of every later step *)
(* is the new payload of the step before it.                               *)
(***************************************************************************)
C35_ReturnedCryptogram ==
    \A e \in Evals :
        (pc[e] = "done" /\ result[e].st = "ok") =>
            /\ Len(Steps(e)) = Len(Given(e))
            /\ \A i \in 1..Len(Steps(e)) : Frame(Steps(e)[i]) = Frame(Given(e)[i])
            /\ Steps(e)[1].payload = Given(e)[1].payload
            /\ \A i \in 2..Len(Steps(e)) :
                  /\ Cardinality(EventsAt(e, "new_payload", i - 2)) = 1
                  /\ \A p \in EventsAt(e, "new_payload", i - 2) :
                        Steps(e)[i].payload = trace[e][p].v

\* an edge route of two steps returned: its first step had been bound to
\* what its preflight made of the body, and its second step, given no
\* payload, now carries the new payload of the first
C35_Witness ==
    \E e \in Evals :
        /\ pc[e] = "done" /\ result[e].st = "ok"
        /\ posted[e].route = "edge"
        /\ Len(Steps(e)) = 2
        /\ posted[e].steps[1].preflight.some
        /\ ~Steps(e)[1].preflight.some
        /\ Steps(e)[1].payload = posted[e].body
        /\ ~posted[e].steps[2].payload.some
        /\ Steps(e)[2].payload.some

\* the scratchpad of the evaluation; before make_state there is none
Scratchpad(e) ==
    IF translator_state[e] = 0 THEN EmptyMap ELSE heap[translator_state[e]]

\* the names the evaluation has set so far
NamesSet(e) == {trace[e][p].name : p \in Events(e, "set")}

\* the last Set of the name, so far
LastSet(e, n) ==
    LET ps == {p \in Events(e, "set") : trace[e][p].name = n}
    IN  CHOOSE p \in ps : \A q \in ps : q <= p

\* the scratchpad holds the names that were set, each with the value of its
\* last Set, also after a transform or a step has failed
WritesKept ==
    \A e \in Evals :
        /\ DOMAIN Scratchpad(e) = NamesSet(e)
        /\ \A n \in NamesSet(e) :
              Some(Scratchpad(e)[n]) = trace[e][LastSet(e, n)].v

\* no step takes a name out of a scratchpad
ScratchpadGrows ==
    /\ DOMAIN heap \subseteq DOMAIN heap'
    /\ \A h \in DOMAIN heap : DOMAIN heap[h] \subseteq DOMAIN heap'[h]
    /\ \A e \in Evals : DOMAIN Scratchpad(e) \subseteq DOMAIN Scratchpad(e)'

\* a step changes a scratchpad at the names it sets, and nowhere else
OnlySetWrites ==
    /\ \A e \in Evals :
          LET sets == {p \in Events(e, "set")' : p > Len(trace[e])}
              names == {trace'[e][p].name : p \in sets}
          IN  \A n \in DOMAIN Scratchpad(e)' :
                  IF n \in names
                      THEN \E p \in sets :
                              /\ trace'[e][p].name = n
                              /\ trace'[e][p].v = Some(Scratchpad(e)'[n])
                              /\ \A q \in sets : trace'[e][q].name = n => q <= p
                  ELSE /\ n \in DOMAIN Scratchpad(e)
                       /\ Scratchpad(e)'[n] = Scratchpad(e)[n]
    /\ \A h \in DOMAIN heap :
          heap'[h] # heap[h] =>
              \E e \in Evals : translator_state[e] = h /\ trace'[e] # trace[e]

(***************************************************************************)
(* C36. During an evaluation no name leaves the scratchpad.  Only Set      *)
(* changes it, at the one name it sets, and what a Set wrote stays written *)
(* when a later part of the same transform or a later step fails.          *)
(***************************************************************************)
C36_ScratchpadOnlyGrows ==
    /\ []WritesKept
    /\ [][ScratchpadGrows /\ OnlySetWrites]_vars

\* one evaluation failed in the postflight that had just set y, after its
\* preflight had set x; the other failed in its second step, after the
\* postflight of its first had set x: all three names are still there
C36_Witness ==
    \E e \in Evals, f \in Evals :
        /\ pc[e] = "done" /\ result[e].st = "err"
        /\ result[e].err.kind = "InvalidStructure"
        /\ EventsAt(e, "postflight", 0) # {}
        /\ DOMAIN Scratchpad(e) = {"x", "y"}
        /\ pc[f] = "done" /\ result[f].st = "err"
        /\ Len(Steps(f)) = 2
        /\ EventsAt(f, "request", 1) # {}
        /\ EventsAt(f, "return", 1) # {}
        /\ DOMAIN Scratchpad(f) = {"x"}

\* the scratchpad and the side effects after the first k elements of an
\* array, each evaluated where the one before it left off
RECURSIVE WorldAfter(_, _, _, _)
WorldAfter(sub, elems, k, w) ==
    IF k = 0 THEN w
    ELSE step(NoopCtx, sub, elems[k], WorldAfter(sub, elems, k - 1, w)).w

\* element k evaluated after the elements before it
InTurn(sub, elems, k, w) ==
    step(NoopCtx, sub, elems[k], WorldAfter(sub, elems, k - 1, w))

\* the positions of the elements that do not return a value in their turn
Failing(sub, elems, w) ==
    {k \in 1..Len(elems) : InTurn(sub, elems, k, w).st # "ok"}

\* Array(sub) was applied to an array
ArrayApplied ==
    /\ probe.op = "apply"
    /\ probe.done
    /\ probe.form \in {"array", "each"}
    /\ probe.given.t = "arr"

(***************************************************************************)
(* C37. Array(sub) evaluates sub on the elements one at a time in index    *)
(* order against the one scratchpad, each element where the one before it  *)
(* left off.  When sub fails at index i the elements after i are not       *)
(* evaluated and what was written for the elements before i stays; after   *)
(* Array(Set(x)) on a non-empty array x is the last element.               *)
(***************************************************************************)
C37_ArrayInOrder ==
    ArrayApplied =>
        LET sub == probe.prog.next
            elems == probe.given.a
            w == World(probe.sp)
            failing == Failing(sub, elems, w)
        IN  /\ IF failing = {}
                   THEN /\ probe.r.st = "ok"
                        /\ probe.r.value =
                               Array([k \in 1..Len(elems) |->
                                         InTurn(sub, elems, k, w).value])
                        /\ probe.r.w = WorldAfter(sub, elems, Len(elems), w)
               ELSE LET i == CHOOSE k \in failing : \A j \in failing : k <= j
                    IN  /\ probe.r.st = InTurn(sub, elems, i, w).st
                        /\ probe.r.w = InTurn(sub, elems, i, w).w
            /\ (sub = Set("x") /\ Len(elems) > 0) =>
                   /\ probe.r.st = "ok"
                   /\ probe.r.w.sp["x"] = elems[Len(elems)]

\* Array(.a | set(x)) on an array of three whose second element is no
\* object: the failure names index 1, x holds what the first element gave
\* and not what the third would have given, and y is untouched
C37_Witness ==
    /\ ArrayApplied
    /\ probe.form = "each"
    /\ probe.a = At("a")
    /\ probe.b = Set("x")
    /\ probe.given = Array(<<Obj1("a", Null), String("v"), Obj1("a", String("v"))>>)
    /\ probe.sp = [n \in {"x", "y"} |-> IF n = "x" THEN String("old") ELSE Number(2)]
    /\ probe.r.st = "err"
    /\ probe.r.history = <<"[1]", "a">>
    /\ probe.r.w.sp["x"] = Null
    /\ probe.r.w.sp["y"] = Number(2)
    /\ Len(probe.r.w.ops) = 1

\* Object [p: a, q: b, p: c] was applied: the key p is listed twice
RepeatedKey ==
    /\ probe.op = "apply"
    /\ probe.done
    /\ probe.form = "object"

(***************************************************************************)
(* C38. When an Object lists a key more than once and every expression     *)
(* succeeds, all expressions are evaluated in declared order against the   *)
(* same input, each on the scratchpad the one before it left, and the      *)
(* object returned holds for that key the value of its last occurrence.    *)
(***************************************************************************)
C38_LastKeyWins ==
    RepeatedKey =>
        LET ra == step(NoopCtx, probe.a, probe.given, World(probe.sp))
            rb == step(NoopCtx, probe.b, probe.given, ra.w)
            rc == step(NoopCtx, probe.c, probe.given, rb.w)
        IN  IF ra.st = "ok" /\ rb.st = "ok" /\ rc.st = "ok"
                THEN /\ probe.r.st = "ok"
                     /\ probe.r.value.t = "obj"
                     /\ DOMAIN probe.r.value.o = {"p", "q"}
                     /\ probe.r.value.o["p"] = rc.value
                     /\ probe.r.value.o["q"] = rb.value
                     /\ probe.r.w = rc.w
            ELSE probe.r.st # "ok"

\* {p: set(x), q: get(x), p: const("k")}: p holds the constant and not the
\* input, q holds what the first expression wrote, so all three were
\* evaluated, in this order
C38_Witness ==
    /\ RepeatedKey
    /\ probe.a = Set("x")
    /\ probe.b = Get("x")
    /\ probe.c = Const(String("k"))
    /\ probe.given = String("v")
    /\ probe.sp = EmptyMap
    /\ probe.r.st = "ok"
    /\ probe.r.value = Obj2("p", String("k"), "q", String("v"))
    /\ probe.r.w.sp["x"] = String("v")

====
